---- MODULE Spec2Model ----
(***************************************************************************)
(* The posture-analysis engine of src/src/services/tensorflowPoseService.ts *)
(* (class TensorFlowPoseService) and the tracking service of                *)
(* src/src/services/trackingService.ts (class TrackingService) as state     *)
(* machines over one clock.                                                 *)
(*                                                                          *)
(* Numbers are fixed point.  Coordinates and visibilities are in            *)
(* thousandths (0.5 is 500), scores and metrics are in thousandths          *)
(* (a score of 10 is 10000, an angle of 35 degrees is 35000).  Angles are   *)
(* whole degrees: the arctangent is truncated to the degree.  Sums and      *)
(* means of scores are exact (a mean is compared and rounded through its    *)
(* sum and its length), the arithmetic is decimal, not binary floating      *)
(* point.                                                                   *)
(***************************************************************************)
EXTENDS Integers, Sequences, FiniteSets, TLC

VARIABLES
    detector,          \* this.detector is not null
    videoElement,      \* this.videoElement is not null
    isInitialized,     \* this.isInitialized
    currentAnalysis,   \* this.currentAnalysis (NoAnalysis for null)
    animationFrame,    \* this.animationFrame (NoHandle for null)
    lastUpdateTime,    \* this.lastUpdateTime
    isPageVisible,     \* this.isPageVisible
    postureHistory,    \* this.postureHistory
    landmarkHistory,   \* this.landmarkHistory
    issueConsistency,  \* this.issueConsistency, in insertion order
    documentHidden,    \* document.hidden
    now,               \* the value of the latest Date.now() read
    pending,           \* callbacks scheduled with setTimeout / requestAnimationFrame
    awaiting,          \* detectPose invocations suspended in estimatePoses
    nextHandle,        \* the next handle the browser hands out
    published,         \* what onPostureUpdate has received, in order
    errors,            \* number of onError reports
    lifecycle,         \* "constructed", "started", "failed", "stopped"
    lastTick,          \* outcome of the latest completed detectPose invocation
    frameLog,          \* the latest analysed frames (history variable)
    produced,          \* every per-frame analysis so far (history variable)
    evidence,          \* per issue: frames flagged since its counter was last 0
    ticks,             \* detectPose invocations so far
    poseChanges,       \* how often the detector's output changed
    \* class TrackingService of src/src/services/trackingService.ts
    settings,              \* this.settings
    data,                  \* this.data
    postureCheckInterval,  \* this.postureCheckInterval (NoHandle for null)
    screenTimeInterval,    \* this.screenTimeInterval
    sessionTimeInterval,   \* this.sessionTimeInterval
    breakAlertInterval,    \* this.breakAlertInterval
    lastPostureAlertTime,  \* this.lastPostureAlertTime
    postureAlertActive,    \* this.postureAlertActive
    breakAlertActive,      \* this.breakAlertActive
    lastBreakAlertTime,    \* this.lastBreakAlertTime
    intervals,             \* the interval timers the browser is running
    nextInterval,          \* the next handle setInterval hands out
    postureAlerts,         \* what onPostureAlert has received, in order
    undismissed,           \* posture alerts raised since the last dismissal
    breakAlerts,           \* number of onBreakAlert calls
    paused,                \* the client's latest call was stopTracking
    pauses                 \* how often time was let pass

vars == <<detector, videoElement, isInitialized, currentAnalysis, animationFrame, lastUpdateTime,
          isPageVisible, postureHistory, landmarkHistory, issueConsistency,
          documentHidden, now, pending, awaiting, nextHandle, published,
          errors, lifecycle, lastTick, frameLog, produced, evidence, ticks,
          poseChanges, settings, data, postureCheckInterval,
          screenTimeInterval, sessionTimeInterval, breakAlertInterval,
          lastPostureAlertTime, postureAlertActive, breakAlertActive,
          lastBreakAlertTime, intervals, nextInterval, postureAlerts,
          undismissed, breakAlerts, paused, pauses>>

\* The state of the tracking service, and the state of the engine but the clock.
trackerVars ==
    <<settings, data, postureCheckInterval, screenTimeInterval,
      sessionTimeInterval, breakAlertInterval, lastPostureAlertTime,
      postureAlertActive, breakAlertActive, lastBreakAlertTime, intervals,
      nextInterval, postureAlerts, undismissed, breakAlerts, paused, pauses>>

engineVars ==
    <<detector, videoElement, isInitialized, currentAnalysis, animationFrame,
      lastUpdateTime, isPageVisible, postureHistory, landmarkHistory,
      issueConsistency, documentHidden, pending, awaiting, nextHandle,
      published, errors, lifecycle, lastTick, frameLog, produced, evidence,
      ticks, poseChanges>>

----------------------------------------------------------------------------
(* Configuration of the service.                                            *)

UPDATE_INTERVAL == 2000
SMOOTHING_WINDOW == 12
LANDMARK_SMOOTHING_WINDOW == 6
CONSISTENCY_THRESHOLD == 3

NoAnalysis == [none |-> TRUE]
NoHandle == 0

----------------------------------------------------------------------------
(* Arithmetic helpers.                                                      *)

Abs(a) == IF a < 0 THEN -a ELSE a
Min(a, b) == IF a < b THEN a ELSE b
Max(a, b) == IF a > b THEN a ELSE b

RECURSIVE SumSeq(_)
SumSeq(s) == IF s = <<>> THEN 0 ELSE Head(s) + SumSeq(Tail(s))

Last(s) == s[Len(s)]

\* 10000 * tan(d degrees), d = 1..89, rounded down.
TanTable ==
    <<174, 349, 524, 699, 874, 1051, 1227, 1405, 1583, 1763, 1943, 2125,
      2308, 2493, 2679, 2867, 3057, 3249, 3443, 3639, 3838, 4040, 4244,
      4452, 4663, 4877, 5095, 5317, 5543, 5773, 6008, 6248, 6494, 6745,
      7002, 7265, 7535, 7812, 8097, 8390, 8692, 9004, 9325, 9656, 9999,
      10355, 10723, 11106, 11503, 11917, 12348, 12799, 13270, 13763, 14281,
      14825, 15398, 16003, 16642, 17320, 18040, 18807, 19626, 20503, 21445,
      22460, 23558, 24750, 26050, 27474, 29042, 30776, 32708, 34874, 37320,
      40107, 43314, 47046, 51445, 56712, 63137, 71153, 81443, 95143, 114300,
      143006, 190811, 286362, 572899>>

\* atan(opp / adj) in whole degrees, for opp >= 0 and adj > 0.  Both are
\* first brought below 2000 so that the products stay within 32 bits.
AtanDeg(opp, adj) ==
    LET scale == (Max(opp, adj) \div 2000) + 1
        o == opp \div scale
        a == adj \div scale
    IN  Cardinality({d \in 1..89 : TanTable[d] * a <= o * 10000})

\* |Math.atan2(opp, adj)| * 180 / Math.PI in whole degrees, 0..180.
AbsAtan2Deg(opp, adj) ==
    LET o == Abs(opp)
    IN  IF o = 0 THEN (IF adj >= 0 THEN 0 ELSE 180)
        ELSE IF adj = 0 THEN 90
        ELSE IF adj > 0 THEN AtanDeg(o, adj)
        ELSE 180 - AtanDeg(o, -adj)

\* Math.round(sum / n) for a sum in thousandths, to a multiple of `step`
\* thousandths; Math.round rounds a half up.
RoundMean(sum, n, step) == ((2 * sum + n * step) \div (2 * n * step)) * step

----------------------------------------------------------------------------
(* Landmarks.                                                               *)

\* The 17 joints of keypointMap (lines 313-331), at MoveNet indices 0..16.
Joints ==
    {"nose", "leftEye", "rightEye", "leftEar", "rightEar",
     "leftShoulder", "rightShoulder", "leftElbow", "rightElbow",
     "leftWrist", "rightWrist", "leftHip", "rightHip",
     "leftKnee", "rightKnee", "leftAnkle", "rightAnkle"}

\* getKeypoint reads keypoints[index]; a missing entry raises a TypeError.
ExtractThrows(keypoints) == Len(keypoints) < 17

\* keypoints[index] of a JavaScript array is element index + 1 of the sequence.
getKeypoint(keypoints, index) ==
    [x |-> keypoints[index + 1].x, y |-> keypoints[index + 1].y, z |-> 0,
     visibility |-> keypoints[index + 1].score]

extractLandmarks(keypoints) ==
    [nose |-> getKeypoint(keypoints, 0),
     leftEye |-> getKeypoint(keypoints, 1),
     rightEye |-> getKeypoint(keypoints, 2),
     leftEar |-> getKeypoint(keypoints, 3),
     rightEar |-> getKeypoint(keypoints, 4),
     leftShoulder |-> getKeypoint(keypoints, 5),
     rightShoulder |-> getKeypoint(keypoints, 6),
     leftElbow |-> getKeypoint(keypoints, 7),
     rightElbow |-> getKeypoint(keypoints, 8),
     leftWrist |-> getKeypoint(keypoints, 9),
     rightWrist |-> getKeypoint(keypoints, 10),
     leftHip |-> getKeypoint(keypoints, 11),
     rightHip |-> getKeypoint(keypoints, 12),
     leftKnee |-> getKeypoint(keypoints, 13),
     rightKnee |-> getKeypoint(keypoints, 14),
     leftAnkle |-> getKeypoint(keypoints, 15),
     rightAnkle |-> getKeypoint(keypoints, 16)]

\* s.map(e => e[field])
RECURSIVE Column(_, _)
Column(s, field) ==
    IF s = <<>> THEN <<>> ELSE <<Head(s)[field]>> \o Column(Tail(s), field)

\* The mean of the valid landmarks, or the fallback when there is none.
MeanLandmark(validLandmarks, landmarks) ==
    IF Len(validLandmarks) = 0
    THEN IF Len(landmarks) > 0 THEN landmarks[1]
         ELSE [x |-> 0, y |-> 0, z |-> 0, visibility |-> 0]
    ELSE [x |-> SumSeq(Column(validLandmarks, "x")) \div Len(validLandmarks),
          y |-> SumSeq(Column(validLandmarks, "y")) \div Len(validLandmarks),
          z |-> SumSeq(Column(validLandmarks, "z")) \div Len(validLandmarks),
          visibility |-> SumSeq(Column(validLandmarks, "visibility"))
                             \div Len(validLandmarks)]

averageLandmark(landmarks) ==
    MeanLandmark(SelectSeq(landmarks, LAMBDA l : l.visibility > 100), landmarks)

\* Lines 180-182: on an empty window landmarkHistory[0] is undefined, so
\* extractLandmarks([]) is evaluated, and its getKeypoint raises.
smoothLandmarksThrows(history) == Len(history) = 0 /\ ExtractThrows(<<>>)

\* smoothLandmarks where it returns: on a window of at least one frame, as
\* detectPose calls it.
smoothLandmarks(history) ==
    IF Len(history) < 2
    THEN history[Len(history)]
    ELSE [nose |-> averageLandmark(Column(history, "nose")),
          leftEye |-> averageLandmark(Column(history, "leftEye")),
          rightEye |-> averageLandmark(Column(history, "rightEye")),
          leftEar |-> averageLandmark(Column(history, "leftEar")),
          rightEar |-> averageLandmark(Column(history, "rightEar")),
          leftShoulder |-> averageLandmark(Column(history, "leftShoulder")),
          rightShoulder |-> averageLandmark(Column(history, "rightShoulder")),
          leftElbow |-> averageLandmark(Column(history, "leftElbow")),
          rightElbow |-> averageLandmark(Column(history, "rightElbow")),
          leftWrist |-> averageLandmark(Column(history, "leftWrist")),
          rightWrist |-> averageLandmark(Column(history, "rightWrist")),
          leftHip |-> averageLandmark(Column(history, "leftHip")),
          rightHip |-> averageLandmark(Column(history, "rightHip")),
          leftKnee |-> averageLandmark(Column(history, "leftKnee")),
          rightKnee |-> averageLandmark(Column(history, "rightKnee")),
          leftAnkle |-> averageLandmark(Column(history, "leftAnkle")),
          rightAnkle |-> averageLandmark(Column(history, "rightAnkle"))]

----------------------------------------------------------------------------
(* Metric calculator.                                                       *)

calculateNeckAngle(landmarks) ==
    LET nose == landmarks.nose
        leftEar == landmarks.leftEar
        leftShoulder == landmarks.leftShoulder
        vec1X == leftEar.x - leftShoulder.x
        vec1Y == leftEar.y - leftShoulder.y
        vec2X == nose.x - leftEar.x
        vec2Y == nose.y - leftEar.y
        dotProduct == vec1X * vec2X + vec1Y * vec2Y
        crossProduct == vec1X * vec2Y - vec1Y * vec2X
        \* acos(dot / (mag1 * mag2)) is the angle between the two vectors
        angleDeg == AbsAtan2Deg(crossProduct, dotProduct)
    IN  IF nose.visibility < 500 \/ leftEar.visibility < 500
           \/ leftShoulder.visibility < 500
        THEN 0
        ELSE IF (vec1X = 0 /\ vec1Y = 0) \/ (vec2X = 0 /\ vec2Y = 0)
        THEN 0
        ELSE Max(0, 180 - angleDeg) * 1000

calculateShoulderAlignment(landmarks) ==
    LET leftShoulder == landmarks.leftShoulder
        rightShoulder == landmarks.rightShoulder
    IN  IF leftShoulder.visibility < 500 \/ rightShoulder.visibility < 500
        THEN 0
        ELSE AbsAtan2Deg(rightShoulder.y - leftShoulder.y,
                         rightShoulder.x - leftShoulder.x) * 1000

\* The midpoints are kept doubled: atan2 does not depend on the scale.
calculateSpineAlignment(landmarks) ==
    LET leftShoulder == landmarks.leftShoulder
        rightShoulder == landmarks.rightShoulder
        leftHip == landmarks.leftHip
        rightHip == landmarks.rightHip
        shoulderMidX2 == leftShoulder.x + rightShoulder.x
        shoulderMidY2 == leftShoulder.y + rightShoulder.y
        hipMidX2 == leftHip.x + rightHip.x
        hipMidY2 == leftHip.y + rightHip.y
    IN  IF leftShoulder.visibility < 500 \/ rightShoulder.visibility < 500
           \/ leftHip.visibility < 500 \/ rightHip.visibility < 500
        THEN 0
        ELSE AbsAtan2Deg(hipMidX2 - shoulderMidX2,
                         hipMidY2 - shoulderMidY2) * 1000

calculateHeadPosition(landmarks) ==
    LET leftEar == landmarks.leftEar
        rightEar == landmarks.rightEar
        nose == landmarks.nose
    IN  IF leftEar.visibility < 500 \/ rightEar.visibility < 500
           \/ nose.visibility < 500
        THEN 0
        ELSE AbsAtan2Deg(rightEar.y - leftEar.y, rightEar.x - leftEar.x) * 1000

\* Line 698 with a guard of 0.3.
calculateShoulderHeightDimGuard(landmarks) ==
    LET leftShoulder == landmarks.leftShoulder
        rightShoulder == landmarks.rightShoulder
    IN  IF leftShoulder.visibility < 300 \/ rightShoulder.visibility < 300
        THEN 0
        ELSE Abs(leftShoulder.y - rightShoulder.y) * 10

calculateShoulderHeight(landmarks) ==
    LET leftShoulder == landmarks.leftShoulder
        rightShoulder == landmarks.rightShoulder
    IN  IF leftShoulder.visibility < 500 \/ rightShoulder.visibility < 500
        THEN 0
        ELSE Abs(leftShoulder.y - rightShoulder.y) * 10

\* shoulderCenterX > hipCenterX + 0.10, both sides doubled.
detectSlouching(landmarks) ==
    LET leftShoulder == landmarks.leftShoulder
        rightShoulder == landmarks.rightShoulder
        leftHip == landmarks.leftHip
        rightHip == landmarks.rightHip
    IN  IF leftShoulder.visibility < 500 \/ rightShoulder.visibility < 500
           \/ leftHip.visibility < 500 \/ rightHip.visibility < 500
        THEN FALSE
        ELSE leftShoulder.x + rightShoulder.x > leftHip.x + rightHip.x + 200

\* Lines 723-759 returning a score of 0..100, the scale of the thresholds 60
\* and 70 of lines 485-492.
calculateHeadNeckScoreOutOfHundred(landmarks) ==
    LET nose == landmarks.nose
        leftEar == landmarks.leftEar
        rightEar == landmarks.rightEar
        leftShoulder == landmarks.leftShoulder
        rightShoulder == landmarks.rightShoulder
        headShoulderAlignment2 ==
            Abs((leftEar.y + rightEar.y) - (leftShoulder.y + rightShoulder.y))
        headTilt == Abs(leftEar.y - rightEar.y)
        noseShoulderDistance2 ==
            Abs(2 * nose.x - (leftShoulder.x + rightShoulder.x))
        p1 == IF headShoulderAlignment2 > 300
              THEN Min(2000, (headShoulderAlignment2 * 15) \div 2) ELSE 0
        p2 == IF headTilt > 80 THEN Min(1800, headTilt * 20) ELSE 0
        p3 == IF noseShoulderDistance2 > 400
              THEN Min(2500, noseShoulderDistance2 * 5) ELSE 0
    IN  IF nose.visibility < 500 \/ leftEar.visibility < 500
           \/ rightEar.visibility < 500 \/ leftShoulder.visibility < 500
           \/ rightShoulder.visibility < 500
        THEN 0
        ELSE 10 * Max(0, 10000 - p1 - p2 - p3)

\* A score of 0..10 (0..10000 here); the centres are kept doubled.
calculateHeadNeckScore(landmarks) ==
    LET nose == landmarks.nose
        leftEar == landmarks.leftEar
        rightEar == landmarks.rightEar
        leftShoulder == landmarks.leftShoulder
        rightShoulder == landmarks.rightShoulder
        headShoulderAlignment2 ==
            Abs((leftEar.y + rightEar.y) - (leftShoulder.y + rightShoulder.y))
        headTilt == Abs(leftEar.y - rightEar.y)
        noseShoulderDistance2 ==
            Abs(2 * nose.x - (leftShoulder.x + rightShoulder.x))
        p1 == IF headShoulderAlignment2 > 300
              THEN Min(2000, (headShoulderAlignment2 * 15) \div 2) ELSE 0
        p2 == IF headTilt > 80 THEN Min(1800, headTilt * 20) ELSE 0
        p3 == IF noseShoulderDistance2 > 400
              THEN Min(2500, noseShoulderDistance2 * 5) ELSE 0
    IN  IF nose.visibility < 500 \/ leftEar.visibility < 500
           \/ rightEar.visibility < 500 \/ leftShoulder.visibility < 500
           \/ rightShoulder.visibility < 500
        THEN 0
        ELSE Max(0, 10000 - p1 - p2 - p3)

\* Squared shoulder width, and four times the squared distance from the nose
\* to the shoulder centre: the comparisons of the distances and of their
\* ratio are made on the squares.
ShoulderDistanceSq(landmarks) ==
    LET dx == landmarks.leftShoulder.x - landmarks.rightShoulder.x
        dy == landmarks.leftShoulder.y - landmarks.rightShoulder.y
    IN  dx * dx + dy * dy

NoseToShoulderSq4(landmarks) ==
    LET dx == 2 * landmarks.nose.x
                - (landmarks.leftShoulder.x + landmarks.rightShoulder.x)
        dy == 2 * landmarks.nose.y
                - (landmarks.leftShoulder.y + landmarks.rightShoulder.y)
    IN  dx * dx + dy * dy

\* shoulderDistance > 0.8 || distanceRatio < 0.3
detectTooCloseToCamera(landmarks) ==
    IF landmarks.leftShoulder.visibility < 500
       \/ landmarks.rightShoulder.visibility < 500
       \/ landmarks.nose.visibility < 500
    THEN FALSE
    ELSE \/ ShoulderDistanceSq(landmarks) > 800 * 800
         \/ 25 * NoseToShoulderSq4(landmarks) < 9 * ShoulderDistanceSq(landmarks)

\* shoulderDistance < 0.15 || distanceRatio > 0.8
detectTooFarFromCamera(landmarks) ==
    IF landmarks.leftShoulder.visibility < 500
       \/ landmarks.rightShoulder.visibility < 500
       \/ landmarks.nose.visibility < 500
    THEN FALSE
    ELSE \/ ShoulderDistanceSq(landmarks) < 150 * 150
         \/ 25 * NoseToShoulderSq4(landmarks) > 64 * ShoulderDistanceSq(landmarks)

----------------------------------------------------------------------------
(* Issue classifier and per-frame score.                                    *)

TooFarText == "Too far from camera - Move closer for better posture detection"
RepositionText ==
    "Position yourself more clearly in front of the camera for better detection"
ForwardHeadText ==
    "Forward head posture - Try pulling your chin back and aligning your ears over your shoulders"

\* The switch of analyzePosture: issue key -> coaching string.
IssueText(issue) ==
    CASE issue = "forward_head" -> ForwardHeadText
      [] issue = "slight_forward_head" ->
            "Slight forward head - Gently tuck your chin and lengthen the back of your neck"
      [] issue = "uneven_shoulders" ->
            "Uneven shoulders - Try to level your shoulders by relaxing the higher one"
      [] issue = "slight_shoulder_imbalance" ->
            "Slight shoulder imbalance - Focus on keeping both shoulders at the same height"
      [] issue = "head_tilt" ->
            "Head tilted - Try to keep your head level and centered"
      [] issue = "slight_head_tilt" ->
            "Slight head tilt - Gently straighten your head to center"
      [] issue = "shoulder_height_imbalance" ->
            "Shoulder height imbalance - Relax your shoulders and let them hang naturally"
      [] issue = "slight_shoulder_height" ->
            "Slight shoulder height difference - Focus on keeping shoulders level"
      [] issue = "spine_alignment" ->
            "Poor spine alignment - Sit up straight, imagine a string pulling you up from the top of your head"
      [] issue = "slight_spine_deviation" ->
            "Slight spine deviation - Gently straighten your back and engage your core"
      [] issue = "slouching" ->
            "Slouching detected - Roll your shoulders back and down, open your chest"
      [] issue = "head_neck_alignment" ->
            "Poor head and neck alignment - Try to align your head directly over your shoulders"
      [] issue = "slight_head_neck" ->
            "Slight head/neck misalignment - Gently adjust your head position"
      [] issue = "too_close_to_camera" ->
            "Too close to camera - Move back to get better posture detection"
      [] issue = "too_far_from_camera" -> TooFarText

IssueKeys ==
    {"forward_head", "slight_forward_head", "uneven_shoulders",
     "slight_shoulder_imbalance", "head_tilt", "slight_head_tilt",
     "shoulder_height_imbalance", "slight_shoulder_height", "spine_alignment",
     "slight_spine_deviation", "slouching", "head_neck_alignment",
     "slight_head_neck", "too_close_to_camera", "too_far_from_camera"}

PositiveTexts ==
    {"Excellent posture! Keep it up!",
     "Good posture overall, minor adjustments needed",
     "Posture is improving, keep working on it"}

\* One two-tier threshold check: the severe tier, else the slight tier, each
\* with its penalty min(cap, metric * scale); scale is in hundred-thousandths.
Tier(metric, severeAbove, severe, severeCap, severeScale, slightAbove, slight, slightCap, slightScale) ==
    IF metric > severeAbove
    THEN <<[issue |-> severe,
            penalty |-> Min(severeCap, (metric * severeScale) \div 100000)]>>
    ELSE IF metric > slightAbove
    THEN <<[issue |-> slight,
            penalty |-> Min(slightCap, (metric * slightScale) \div 100000)]>>
    ELSE <<>>

\* potentialIssues with the penalty each entry subtracts from totalScore, in
\* the order in which analyzePosture sets the keys.
potentialIssues(landmarks) ==
    LET headNeckScore == calculateHeadNeckScore(landmarks)
    IN  Tier(calculateNeckAngle(landmarks),
             30000, "forward_head", 2000, 8000,
             20000, "slight_forward_head", 800, 4000)
        \o Tier(calculateShoulderAlignment(landmarks),
                20000, "uneven_shoulders", 1500, 8000,
                12000, "slight_shoulder_imbalance", 600, 4000)
        \o Tier(calculateHeadPosition(landmarks),
                25000, "head_tilt", 1800, 8000,
                15000, "slight_head_tilt", 700, 4000)
        \o Tier(calculateShoulderHeight(landmarks),
                30000, "shoulder_height_imbalance", 1200, 5000,
                22000, "slight_shoulder_height", 400, 1500)
        \o Tier(calculateSpineAlignment(landmarks),
                40000, "spine_alignment", 1000, 4000,
                32000, "slight_spine_deviation", 400, 1500)
        \o (IF detectSlouching(landmarks)
            THEN <<[issue |-> "slouching", penalty |-> 1300]>> ELSE <<>>)
        \o (IF headNeckScore < 60000
            THEN <<[issue |-> "head_neck_alignment", penalty |-> 1000]>>
            ELSE IF headNeckScore < 70000
            THEN <<[issue |-> "slight_head_neck", penalty |-> 500]>>
            ELSE <<>>)
        \o (IF detectTooCloseToCamera(landmarks)
            THEN <<[issue |-> "too_close_to_camera", penalty |-> 2000]>>
            ELSE <<>>)
        \o (IF detectTooFarFromCamera(landmarks)
            THEN <<[issue |-> "too_far_from_camera", penalty |-> 2000]>>
            ELSE <<>>)

Flagged(potential) == {potential[i].issue : i \in 1..Len(potential)}

\* Counters are a sequence of [issue, count] in the insertion order of the
\* object's keys.
Tracked(consistency) == {consistency[i].issue : i \in 1..Len(consistency)}

CountOf(consistency, issue) ==
    IF issue \in Tracked(consistency)
    THEN consistency[CHOOSE i \in 1..Len(consistency) :
                         consistency[i].issue = issue].count
    ELSE 0

\* Lines 506-512 with a decrement of 1.
RECURSIVE DecreaseAbsentByOne(_, _)
DecreaseAbsentByOne(consistency, flagged) ==
    IF consistency = <<>> THEN <<>>
    ELSE <<IF Head(consistency).issue \in flagged
           THEN Head(consistency)
           ELSE [Head(consistency) EXCEPT !.count = Max(0, @ - 1)]>>
         \o DecreaseAbsentByOne(Tail(consistency), flagged)

\* Lines 506-512: counters of issues not detected in this frame go down by 3.
RECURSIVE DecreaseAbsent(_, _)
DecreaseAbsent(consistency, flagged) ==
    IF consistency = <<>> THEN <<>>
    ELSE <<IF Head(consistency).issue \in flagged
           THEN Head(consistency)
           ELSE [Head(consistency) EXCEPT !.count = Max(0, @ - 3)]>>
         \o DecreaseAbsent(Tail(consistency), flagged)

\* Lines 514-519: counters of the detected issues go up by 1; a new key is
\* appended to the object.
RECURSIVE IncreaseOne(_, _)
IncreaseOne(consistency, issue) ==
    IF consistency = <<>> THEN <<[issue |-> issue, count |-> 1]>>
    ELSE IF Head(consistency).issue = issue
    THEN <<[Head(consistency) EXCEPT !.count = @ + 1]>> \o Tail(consistency)
    ELSE <<Head(consistency)>> \o IncreaseOne(Tail(consistency), issue)

RECURSIVE IncreasePresent(_, _)
IncreasePresent(consistency, potential) ==
    IF potential = <<>> THEN consistency
    ELSE IncreasePresent(IncreaseOne(consistency, Head(potential).issue),
                         Tail(potential))

UpdateConsistency(consistency, potential) ==
    IncreasePresent(DecreaseAbsent(consistency, Flagged(potential)), potential)

\* Line 524 without the threshold: every flagged issue is reported.
IsReportedWhenFlagged(entry, flagged) == entry.issue \in flagged

\* Line 524 without `&& potentialIssues[issue]`.
IsReportedByCountOnly(entry, flagged) == entry.count >= CONSISTENCY_THRESHOLD

\* Line 524 with `>` for `>=`.
IsReportedAboveThreshold(entry, flagged) ==
    entry.count > CONSISTENCY_THRESHOLD /\ entry.issue \in flagged

\* Line 524: the condition under which a tracked issue is reported.
IsReported(entry, flagged) ==
    entry.count >= CONSISTENCY_THRESHOLD /\ entry.issue \in flagged

\* Lines 521-573: the strings of the reported issues, in counter order.
RECURSIVE consistentIssues(_, _)
consistentIssues(consistency, flagged) ==
    IF consistency = <<>> THEN <<>>
    ELSE (IF IsReported(Head(consistency), flagged)
          THEN <<IssueText(Head(consistency).issue)>> ELSE <<>>)
         \o consistentIssues(Tail(consistency), flagged)

\* Lines 575-582: positive feedback by score band.
positiveFeedback(totalScore) ==
    IF totalScore >= 8000 THEN <<"Excellent posture! Keep it up!">>
    ELSE IF totalScore >= 7000
    THEN <<"Good posture overall, minor adjustments needed">>
    ELSE IF totalScore >= 6000
    THEN <<"Posture is improving, keep working on it">>
    ELSE <<>>

\* Line 585 without the lower clamp.
finalScoreNoFloor(totalScore) == Min(10000, totalScore)

\* Line 585.
finalScore(totalScore) == Max(2000, Min(10000, totalScore))

ZeroMetrics(score, issues) ==
    [score |-> score, issues |-> issues, neckAngle |-> 0,
     shoulderAlignment |-> 0, spineAlignment |-> 0, headPosition |-> 0,
     shoulderHeight |-> 0]

\* Lines 368-374: how many of nose, leftShoulder, rightShoulder are visible.
visibleLandmarks(landmarks) ==
    Cardinality({j \in {"nose", "leftShoulder", "rightShoulder"} :
                    landmarks[j].visibility > 200})

\* Lines 388-406 without the test of the shoulders' visibility.
degradedAnalysisAnyShoulders(landmarks) ==
    IF ShoulderDistanceSq(landmarks) < 100 * 100
    THEN ZeroMetrics(5000, <<TooFarText>>)
    ELSE ZeroMetrics(7500, <<RepositionText>>)

\* Lines 376-418: the analysis returned when fewer than 2 are visible.
degradedAnalysis(landmarks) ==
    IF /\ landmarks.leftShoulder.visibility > 100
       /\ landmarks.rightShoulder.visibility > 100
       /\ ShoulderDistanceSq(landmarks) < 100 * 100
    THEN ZeroMetrics(5000, <<TooFarText>>)
    ELSE ZeroMetrics(7500, <<RepositionText>>)

\* Lines 506-595: the counters are updated, the consistent issues and the
\* positive feedback are reported, the score is clamped.
Report(landmarks, potential, updated, totalScore) ==
    [analysis |->
        [score |-> finalScore(totalScore),
         issues |-> consistentIssues(updated, Flagged(potential))
                    \o positiveFeedback(totalScore),
         neckAngle |-> calculateNeckAngle(landmarks),
         shoulderAlignment |-> calculateShoulderAlignment(landmarks),
         spineAlignment |-> calculateSpineAlignment(landmarks),
         headPosition |-> calculateHeadPosition(landmarks),
         shoulderHeight |-> calculateShoulderHeight(landmarks)],
     consistency |-> updated,
     degraded |-> FALSE,
     potential |-> Flagged(potential)]

\* totalScore losing only the penalties of the issues that are reported.
ClassifyReportedOnly(landmarks, potential, consistency) ==
    Report(landmarks, potential, UpdateConsistency(consistency, potential),
           10000 - SumSeq(Column(
               SelectSeq(potential,
                         LAMBDA p :
                             CountOf(UpdateConsistency(consistency, potential),
                                     p.issue) >= CONSISTENCY_THRESHOLD),
               "penalty")))

\* Lines 431-504: totalScore starts at 10 and loses the penalty of every
\* potential issue.
Classify(landmarks, potential, consistency) ==
    Report(landmarks, potential, UpdateConsistency(consistency, potential),
           10000 - SumSeq(Column(potential, "penalty")))

\* analyzePosture with the early return of lines 376-418 placed after the
\* decrement of lines 506-512: a frame below the gate flags nothing.
analyzePostureDecaying(landmarks, consistency) ==
    IF visibleLandmarks(landmarks) < 2
    THEN [analysis |-> degradedAnalysis(landmarks),
          consistency |-> DecreaseAbsent(consistency, {}),
          degraded |-> TRUE,
          potential |-> {}]
    ELSE Classify(landmarks, potentialIssues(landmarks), consistency)

\* analyzePosture: the analysis of one frame and the counters it leaves.
\* `degraded` and `potential` record which path was taken and what was
\* flagged.
analyzePosture(landmarks, consistency) ==
    IF visibleLandmarks(landmarks) < 2
    THEN [analysis |-> degradedAnalysis(landmarks),
          consistency |-> consistency,
          degraded |-> TRUE,
          potential |-> {}]
    ELSE Classify(landmarks, potentialIssues(landmarks), consistency)

----------------------------------------------------------------------------
(* Score aggregator: smoothing of the analysis history.                     *)

ScoreSum(history) == SumSeq(Column(history, "score"))

\* Line 259 with a cutoff of 9.0.
HighScoreAboveNine(history) == ScoreSum(history) > 9000 * Len(history)

\* Line 259: avgScore > 8.0, on the sum.
HighScore(history) == ScoreSum(history) > 8000 * Len(history)

\* Lines 258-268 without the reset of lines 258-261.
resetConsistencyNever(history, consistency) ==
    SelectSeq(consistency, LAMBDA entry : entry.count # 0)

\* Lines 258-268: the counters after a smoothing pass.
resetConsistency(history, consistency) ==
    SelectSeq(IF HighScore(history) THEN <<>> ELSE consistency,
              LAMBDA e : e.count # 0)

\* Lines 254-256 reading the oldest entry of the window.
oldestIssues(history) == history[1].issues

\* Lines 254-256: the issues of the most recent analysis, not averaged.
latestIssues(history) == Last(history).issues

\* Lines 246-278 on a non-empty history: the smoothed analysis.
smoothPostureAnalysis(history) ==
    [score |-> RoundMean(ScoreSum(history), Len(history), 1000),
     issues |-> latestIssues(history),
     neckAngle |->
         RoundMean(SumSeq(Column(history, "neckAngle")), Len(history), 100),
     shoulderAlignment |->
         RoundMean(SumSeq(Column(history, "shoulderAlignment")),
                   Len(history), 100),
     spineAlignment |->
         RoundMean(SumSeq(Column(history, "spineAlignment")),
                   Len(history), 100),
     headPosition |->
         RoundMean(SumSeq(Column(history, "headPosition")), Len(history), 100),
     shoulderHeight |->
         RoundMean(SumSeq(Column(history, "shoulderHeight")),
                   Len(history), 100)]

\* push without the shift.
PushUnbounded(history, entry, window) == Append(history, entry)

\* push, then shift when the window is exceeded (lines 120-123, 140-143).
PushBounded(history, entry, window) ==
    IF Len(history) + 1 > window
    THEN Tail(Append(history, entry))
    ELSE Append(history, entry)

----------------------------------------------------------------------------
(* Detector output: the keypoint lists the model feeds to the engine.       *)

\* 17 keypoints of a seated person with level ears over x = 0.4 and 0.6; the
\* nose, the shoulders, the hips and the detector's confidence vary.
Keypoints(noseX, noseY, leftShoulderX, leftShoulderY, rightShoulderX, rightShoulderY, hipX, score) ==
    <<[x |-> noseX, y |-> noseY, score |-> score],
      [x |-> 450, y |-> 380, score |-> score],
      [x |-> 550, y |-> 380, score |-> score],
      [x |-> 400, y |-> 400, score |-> score],
      [x |-> 600, y |-> 400, score |-> score],
      [x |-> leftShoulderX, y |-> leftShoulderY, score |-> score],
      [x |-> rightShoulderX, y |-> rightShoulderY, score |-> score],
      [x |-> 350, y |-> 800, score |-> score],
      [x |-> 650, y |-> 800, score |-> score],
      [x |-> 350, y |-> 950, score |-> score],
      [x |-> 650, y |-> 950, score |-> score],
      [x |-> hipX - 100, y |-> 900, score |-> score],
      [x |-> hipX + 100, y |-> 900, score |-> score],
      [x |-> 400, y |-> 1200, score |-> score],
      [x |-> 600, y |-> 1200, score |-> score],
      [x |-> 400, y |-> 1500, score |-> score],
      [x |-> 600, y |-> 1500, score |-> score]>>

\* Nothing but head/neck alignment flagged: score 9.
Upright == Keypoints(400, 500, 400, 600, 600, 600, 500, 900)
\* neckAngle 35: score 7.
ForwardHead == Keypoints(471, 500, 400, 600, 600, 600, 500, 1000)
ForwardHeadMarginal == Keypoints(471, 500, 400, 600, 600, 600, 500, 500)
ForwardHeadDim == Keypoints(471, 500, 400, 600, 600, 600, 500, 300)
\* spineAlignment 45: score 8.
LeaningSpine == Keypoints(400, 500, 400, 600, 600, 600, 800, 900)
\* Wide tilted shoulders and a far nose: penalties of 8.5.
Contorted == Keypoints(450, 1500, 0, 400, 900, 800, 500, 900)
\* Below the visibility gate.
Unclear == Keypoints(400, 500, 400, 600, 600, 600, 500, 150)
\* Just above the visibility gate, below the guard of every metric.
Faint == Keypoints(400, 500, 400, 600, 600, 600, 500, 210)
\* Below the visibility gate with the shoulders 0.04 apart.
FarAway == Keypoints(400, 500, 480, 600, 520, 600, 500, 150)


\* Below the visibility gate with the shoulders exactly 0.1 apart.
ArmsLength == Keypoints(400, 500, 450, 600, 550, 600, 500, 150)

\* The keypoints of a pose with the detector's confidence set per joint: the
\* nose, the eyes and ears, each shoulder, the hips.
WithScores(keypoints, nose, ears, leftShoulder, rightShoulder, hips) ==
    [i \in 1..17 |->
        [x |-> keypoints[i].x, y |-> keypoints[i].y,
         score |-> CASE i = 1 -> nose
                     [] i \in 2..5 -> ears
                     [] i = 6 -> leftShoulder
                     [] i = 7 -> rightShoulder
                     [] i \in {12, 13} -> hips
                     [] OTHER -> keypoints[i].score]]

\* Contorted with the left ear raised: every metric is above zero when seen.
TiltedHead == [Contorted EXCEPT ![4] = [x |-> 400, y |-> 300, score |-> 900]]

\* Confidences on either side of the 0.5 guard of the metric calculators.
GuardScores == {499, 500}

\* Shoulders 0.04, 0.1 and 0.2 apart, with confidences on either side of the
\* 0.2 of the visibility gate and of the 0.1 of the too-far test.
GatePoses ==
    {WithScores(k, n, 300, l, r, 300) :
        k \in {FarAway, ArmsLength, Upright}, n \in {150, 300},
        l \in {100, 300}, r \in {100, 150}}

VisibilityPoses ==
    {WithScores(TiltedHead, n, e, s, s, h) :
        n \in GuardScores, e \in GuardScores, s \in GuardScores,
        h \in GuardScores}

OccludedPoses == {Faint, Unclear, Upright}
Poses == {Upright, ForwardHead, LeaningSpine, Contorted, Unclear}
HysteresisPoses == {ForwardHeadMarginal, ForwardHeadDim, ForwardHead}
ClearPoses == {ForwardHeadDim, ForwardHead}
SteadyPoses == {Upright, ForwardHead, FarAway}

\* Milliseconds between two consecutive reads of Date.now() at line 146.
Delays == {100, 1900}
HysteresisDelays == {100, 2000}
FramePeriod == {100}

StartTime == 100000
MaxTicks == 3
MaxHysteresisTicks == 7
MaxHysteresisChanges == 2
MaxSteadyTicks == 22
MaxPoseChanges == 1
MaxBackgroundTicks == 4
MaxRestartTicks == 3
MaxOccludedTicks == 4
MaxOccludedChanges == 2
MaxTrackerWork == 4
LogDepth == 4

----------------------------------------------------------------------------
(* The tracking service: src/src/services/trackingService.ts.  Scores are   *)
(* the numbers the client passes, times are milliseconds, the average of    *)
(* the readings is kept in thousandths.                                     *)

\* Line 178: alertCooldown.
ALERT_COOLDOWN == 60000
\* Line 249: breakAlertCooldown.
BREAK_ALERT_COOLDOWN == 300000
\* Lines 231, 239, 260: the period of the timers, and the divisor of lines
\* 237 and 247.
MINUTE == 60000
\* Line 167: the readings kept.
READINGS_KEPT == 20

\* Lines 50-55: the settings of a service constructed without settings.
DefaultSettings ==
    [reminderInterval |-> 45, postureCheckInterval |-> 60,
     enableNotifications |-> TRUE, enableBreakAlerts |-> TRUE]

\* The settings the client saves: the two switches.
SettingsChoices ==
    {[DefaultSettings EXCEPT !.enableNotifications = n, !.enableBreakAlerts = b] :
        n \in BOOLEAN, b \in BOOLEAN}

\* The state after the constructor (lines 37-71) with an empty localStorage,
\* at time t.
TrackerInit(t) ==
    /\ settings = DefaultSettings
    /\ data = [screenTime |-> 0, postureScore |-> 85, lastBreakTime |-> t,
               startTime |-> t, breakCount |-> 0, postureHistory |-> <<>>,
               averagePostureScore |-> 85000, sessionTime |-> 0]
    /\ postureCheckInterval = NoHandle
    /\ screenTimeInterval = NoHandle
    /\ sessionTimeInterval = NoHandle
    /\ breakAlertInterval = NoHandle
    /\ lastPostureAlertTime = 0
    /\ postureAlertActive = FALSE
    /\ breakAlertActive = FALSE
    /\ lastBreakAlertTime = 0
    /\ intervals = {}
    /\ nextInterval = 1
    /\ postureAlerts = <<>>
    /\ undismissed = 0
    /\ breakAlerts = 0
    /\ paused = FALSE
    /\ pauses = 0

----------------------------------------------------------------------------
(* The engine.                                                              *)

NoTick == [outcome |-> "none", emitted |-> FALSE]

Init ==
    /\ detector = FALSE
    /\ videoElement = FALSE
    /\ isInitialized = FALSE
    /\ currentAnalysis = NoAnalysis
    /\ animationFrame = NoHandle
    /\ lastUpdateTime = 0
    /\ isPageVisible = TRUE
    /\ postureHistory = <<>>
    /\ landmarkHistory = <<>>
    /\ issueConsistency = <<>>
    /\ documentHidden \in BOOLEAN
    /\ now = StartTime
    /\ pending = {}
    /\ awaiting = 0
    /\ nextHandle = 1
    /\ published = <<>>
    /\ errors = 0
    /\ lifecycle = "constructed"
    /\ lastTick = NoTick
    /\ frameLog = <<>>
    /\ produced = <<>>
    /\ evidence = [k \in IssueKeys |-> 0]
    /\ ticks = 0
    /\ poseChanges = 0
    /\ TrackerInit(StartTime)

\* detectPose up to its await (lines 110-113): with a detector and a video
\* element the invocation suspends in estimatePoses, otherwise it returns
\* without rescheduling.
BeginDetectPose ==
    /\ awaiting' = IF detector' /\ videoElement' THEN awaiting + 1 ELSE awaiting
    /\ ticks' = ticks + 1

\* initialize (lines 63-95) when the backend and the detector load:
\* startDetectionLoop calls detectPose at once.
InitializeOk ==
    /\ lifecycle = "constructed"
    /\ videoElement' = TRUE
    /\ detector' = TRUE
    /\ isInitialized' = TRUE
    /\ lifecycle' = "started"
    /\ BeginDetectPose
    /\ UNCHANGED <<currentAnalysis, animationFrame, lastUpdateTime,
                   isPageVisible, postureHistory, landmarkHistory,
                   issueConsistency, documentHidden, now, pending, nextHandle,
                   published, errors, lastTick, frameLog, produced, evidence,
                   poseChanges>>
    /\ UNCHANGED trackerVars

\* initialize failing after the loop was started: the error is reported
\* while a first detectPose is already suspended in the detector.
InitializeFailsAfterStart ==
    /\ lifecycle = "constructed"
    /\ videoElement' = TRUE
    /\ detector' = TRUE
    /\ errors' = errors + 1
    /\ isInitialized' = FALSE
    /\ lifecycle' = "failed"
    /\ BeginDetectPose
    /\ UNCHANGED <<currentAnalysis, animationFrame, lastUpdateTime,
                   isPageVisible, postureHistory, landmarkHistory,
                   issueConsistency, documentHidden, now, pending,
                   nextHandle, published, lastTick, frameLog, produced,
                   evidence, poseChanges>>
    /\ UNCHANGED trackerVars

\* initialize when tf.ready() or createDetector rejects (lines 96-101).
InitializeFails ==
    /\ lifecycle = "constructed"
    /\ videoElement' = TRUE
    /\ errors' = errors + 1
    /\ isInitialized' = FALSE
    /\ lifecycle' = "failed"
    /\ UNCHANGED <<detector, currentAnalysis, animationFrame, lastUpdateTime,
                   isPageVisible, postureHistory, landmarkHistory,
                   issueConsistency, documentHidden, now, pending, awaiting,
                   nextHandle, published, lastTick, frameLog, produced, evidence, ticks,
                   poseChanges>>
    /\ UNCHANGED trackerVars

\* The browser runs a scheduled detectPose: a timer always, an animation
\* frame only while the document is shown.
RunCallback(c, maxTicks) ==
    /\ c \in pending
    /\ c.kind = "raf" => ~documentHidden
    /\ ticks < maxTicks
    /\ pending' = pending \ {c}
    /\ UNCHANGED <<detector, videoElement>>
    /\ BeginDetectPose
    /\ UNCHANGED <<isInitialized, currentAnalysis, animationFrame,
                   lastUpdateTime, isPageVisible, postureHistory,
                   landmarkHistory, issueConsistency, documentHidden, now,
                   nextHandle, published, errors, lifecycle, lastTick,
                   frameLog, produced, evidence, poseChanges>>
    /\ UNCHANGED trackerVars

\* Lines 160-167: the next invocation is scheduled with setTimeout while the
\* page is hidden, with requestAnimationFrame otherwise.
Reschedule ==
    /\ pending' = pending \cup
          {[handle |-> nextHandle,
            kind |-> IF ~isPageVisible THEN "timeout" ELSE "raf"]}
    /\ animationFrame' = nextHandle
    /\ nextHandle' = nextHandle + 1

\* The evidence count of an issue after a frame that updated the counters.
EvidenceAfter(old, flagged, consistency) ==
    [k \in IssueKeys |->
        IF k \in flagged THEN old[k] + 1
        ELSE IF CountOf(consistency, k) = 0 THEN 0 ELSE old[k]]

\* Line 146 with `>` for `>=`.
EmitDueStrict(t) == t - lastUpdateTime > UPDATE_INTERVAL

\* Line 146 without the interval.
EmitDueEveryFrame(t) == t > lastUpdateTime

\* Lines 145-152: whether the analysis completed at time t is published.
EmitDue(t) == t - lastUpdateTime >= UPDATE_INTERVAL

\* Lines 145-152 and the bookkeeping of the frame: the analysis completed at
\* time t is pushed on the history and, when due, smoothed and published.
Complete(result, postureHistory2, t) ==
    /\ postureHistory' = postureHistory2
    /\ now' = t
    /\ IF EmitDue(t)
       THEN /\ issueConsistency' =
                   resetConsistency(postureHistory2, result.consistency)
            /\ currentAnalysis' = smoothPostureAnalysis(postureHistory2)
            /\ published' =
                   Append(published,
                          [analysis |-> smoothPostureAnalysis(postureHistory2),
                           at |-> t])
            /\ lastUpdateTime' = t
       ELSE /\ issueConsistency' = result.consistency
            /\ UNCHANGED <<currentAnalysis, published, lastUpdateTime>>
    /\ evidence' =
          [k \in IssueKeys |->
              IF CountOf(issueConsistency', k) = 0 THEN 0
              ELSE IF result.degraded THEN evidence[k]
              ELSE EvidenceAfter(evidence, result.potential,
                                 result.consistency)[k]]
    /\ frameLog' =
          PushBounded(frameLog,
                      [degraded |-> result.degraded,
                       potential |-> result.potential,
                       analysis |-> result.analysis,
                       before |-> issueConsistency,
                       after |-> result.consistency,
                       evidence |->
                           IF result.degraded THEN evidence
                           ELSE EvidenceAfter(evidence, result.potential,
                                              result.consistency),
                       cleared |-> EmitDue(t) /\ HighScore(postureHistory2)],
                      LogDepth)
    /\ produced' = Append(produced, result.analysis)
    /\ lastTick' = [outcome |-> "pose", emitted |-> EmitDue(t)]

\* estimatePoses resolves with a pose (lines 115-152), `delay` ms after the
\* previous analysis, for a delay of `delays`.
PoseDetected(keypoints, delays, maxChanges) ==
    /\ awaiting > 0
    /\ ~ExtractThrows(keypoints)
    /\ \E history2 \in {PushBounded(landmarkHistory, extractLandmarks(keypoints),
                                    LANDMARK_SMOOTHING_WINDOW)} :
         /\ (landmarkHistory # <<>> /\ Last(landmarkHistory) # Last(history2))
               => poseChanges < maxChanges
         /\ poseChanges' =
               IF landmarkHistory # <<>> /\ Last(landmarkHistory) # Last(history2)
               THEN poseChanges + 1 ELSE poseChanges
         /\ landmarkHistory' = history2
         /\ \E result \in {analyzePosture(smoothLandmarks(history2),
                                          issueConsistency)} :
              \E delay \in delays :
                 Complete(result,
                          PushBounded(postureHistory, result.analysis,
                                      SMOOTHING_WINDOW),
                          now + delay)
    /\ awaiting' = awaiting - 1
    /\ Reschedule
    /\ UNCHANGED <<detector, videoElement, isInitialized, isPageVisible,
                   documentHidden, errors, lifecycle, ticks>>
    /\ UNCHANGED trackerVars

\* estimatePoses resolves with no pose (lines 153-155).
NoPoseDetected ==
    /\ awaiting > 0
    /\ awaiting' = awaiting - 1
    /\ lastTick' = [outcome |-> "nopose", emitted |-> FALSE]
    /\ Reschedule
    /\ UNCHANGED <<detector, videoElement, isInitialized, currentAnalysis,
                   lastUpdateTime, isPageVisible, postureHistory,
                   landmarkHistory, issueConsistency, documentHidden, now,
                   published, errors, lifecycle, frameLog, produced, evidence, ticks,
                   poseChanges>>
    /\ UNCHANGED trackerVars

\* A catch that returns: the rejection ends the invocation with nothing
\* scheduled.
DetectorThrowsAndReturns ==
    /\ awaiting > 0
    /\ awaiting' = awaiting - 1
    /\ lastTick' = [outcome |-> "throw", emitted |-> FALSE]
    /\ UNCHANGED <<detector, videoElement, isInitialized, currentAnalysis,
                   animationFrame, lastUpdateTime, isPageVisible,
                   postureHistory, landmarkHistory, issueConsistency,
                   documentHidden, now, pending, nextHandle, published,
                   errors, lifecycle, frameLog, produced, evidence, ticks,
                   poseChanges>>
    /\ UNCHANGED trackerVars

\* The catch of lines 156-158 dropping the windows before the loop goes on.
DetectorThrowsAndResets ==
    /\ awaiting > 0
    /\ awaiting' = awaiting - 1
    /\ lastTick' = [outcome |-> "throw", emitted |-> FALSE]
    /\ landmarkHistory' = <<>>
    /\ postureHistory' = <<>>
    /\ Reschedule
    /\ UNCHANGED <<detector, videoElement, isInitialized, currentAnalysis,
                   lastUpdateTime, isPageVisible, issueConsistency,
                   documentHidden, now, published, errors, lifecycle,
                   frameLog, produced, evidence, ticks, poseChanges>>
    /\ UNCHANGED trackerVars

\* estimatePoses rejects; the catch of lines 156-158 logs the error.
DetectorThrows ==
    /\ awaiting > 0
    /\ awaiting' = awaiting - 1
    /\ lastTick' = [outcome |-> "throw", emitted |-> FALSE]
    /\ Reschedule
    /\ UNCHANGED <<detector, videoElement, isInitialized, currentAnalysis,
                   lastUpdateTime, isPageVisible, postureHistory,
                   landmarkHistory, issueConsistency, documentHidden, now,
                   published, errors, lifecycle, frameLog, produced, evidence, ticks,
                   poseChanges>>
    /\ UNCHANGED trackerVars

\* The visibilitychange listener (lines 299-309).
VisibilityChange ==
    /\ documentHidden' = ~documentHidden
    /\ isPageVisible' = ~documentHidden'
    /\ UNCHANGED <<detector, videoElement, isInitialized, currentAnalysis,
                   animationFrame, lastUpdateTime, postureHistory,
                   landmarkHistory, issueConsistency, now, pending, awaiting,
                   nextHandle, published, errors, lifecycle, lastTick,
                   frameLog, produced, evidence, ticks, poseChanges>>
    /\ UNCHANGED trackerVars

\* stop that also forgets the counters.
StopAndForget ==
    /\ lifecycle = "started"
    /\ IF animationFrame # NoHandle
       THEN pending' = pending \
               {[handle |-> animationFrame,
                 kind |-> IF ~isPageVisible THEN "timeout" ELSE "raf"]}
       ELSE pending' = pending
    /\ animationFrame' = NoHandle
    /\ currentAnalysis' = NoAnalysis
    /\ isInitialized' = FALSE
    /\ lifecycle' = "stopped"
    /\ issueConsistency' = <<>>
    /\ UNCHANGED <<detector, videoElement, lastUpdateTime, isPageVisible,
                   postureHistory, landmarkHistory, documentHidden, now,
                   awaiting, nextHandle, published, errors, lastTick,
                   frameLog, produced, evidence, ticks, poseChanges>>
    /\ UNCHANGED trackerVars

\* stop (lines 281-297): the pending handle is cleared with clearTimeout or
\* cancelAnimationFrame according to the page visibility at this moment.
Stop ==
    /\ lifecycle = "started"
    /\ IF animationFrame # NoHandle
       THEN pending' = pending \
               {[handle |-> animationFrame,
                 kind |-> IF ~isPageVisible THEN "timeout" ELSE "raf"]}
       ELSE pending' = pending
    /\ animationFrame' = NoHandle
    /\ currentAnalysis' = NoAnalysis
    /\ isInitialized' = FALSE
    /\ lifecycle' = "stopped"
    /\ UNCHANGED <<detector, videoElement, lastUpdateTime, isPageVisible,
                   postureHistory, landmarkHistory, issueConsistency,
                   documentHidden, now, awaiting, nextHandle, published,
                   errors, lastTick, frameLog, produced, evidence, ticks, poseChanges>>
    /\ UNCHANGED trackerVars

\* initialize called again on a stopped engine (lines 63-95): the fields set
\* are videoElement, detector and isInitialized, and startDetectionLoop calls
\* detectPose at once.
Reinitialize(maxTicks) ==
    /\ lifecycle = "stopped"
    /\ ticks < maxTicks
    /\ videoElement' = TRUE
    /\ detector' = TRUE
    /\ isInitialized' = TRUE
    /\ lifecycle' = "started"
    /\ BeginDetectPose
    /\ UNCHANGED <<currentAnalysis, animationFrame, lastUpdateTime,
                   isPageVisible, postureHistory, landmarkHistory,
                   issueConsistency, documentHidden, now, pending, nextHandle,
                   published, errors, lastTick, frameLog, produced, evidence,
                   poseChanges>>
    /\ UNCHANGED trackerVars

\* A pose with fewer than 17 keypoints.
Truncated(keypoints) == SubSeq(keypoints, 1, 5)

\* estimatePoses resolves with a pose of which extractLandmarks cannot read
\* every keypoint: line 117 throws before the push of line 120 and the catch
\* of lines 156-158 is the one a rejection reaches.
ExtractionThrows(keypoints) ==
    /\ ExtractThrows(keypoints)
    /\ DetectorThrows

Next ==
    \/ InitializeOk
    \/ InitializeFails
    \/ \E c \in pending : RunCallback(c, MaxTicks)
    \/ \E k \in Poses : PoseDetected(k, Delays, MaxTicks)
    \/ NoPoseDetected
    \/ DetectorThrows
    \/ VisibilityChange
    \/ Stop

Spec == Init /\ [][Next]_vars

\* A forward-leaning person whose detection confidence changes at most
\* MaxHysteresisChanges times, with frames 100 ms apart.
NextHysteresis ==
    \/ InitializeOk
    \/ \E c \in pending : RunCallback(c, MaxHysteresisTicks)
    \/ \E k \in HysteresisPoses :
           PoseDetected(k, FramePeriod, MaxHysteresisChanges)

SpecHysteresis == Init /\ [][NextHysteresis]_vars

\* A forward-leaning person who becomes clearly visible (or dim) at most
\* MaxPoseChanges times, with frames 100 ms or 2 s apart.
NextClear ==
    \/ InitializeOk
    \/ \E c \in pending : RunCallback(c, MaxHysteresisTicks)
    \/ \E k \in ClearPoses : PoseDetected(k, HysteresisDelays, MaxPoseChanges)

SpecClear == Init /\ [][NextClear]_vars

\* A detector that delivers a pose every 100 ms for a person who changes
\* posture at most MaxPoseChanges times.
NextSteady ==
    \/ InitializeOk
    \/ \E c \in pending : RunCallback(c, MaxSteadyTicks)
    \/ \E k \in SteadyPoses : PoseDetected(k, FramePeriod, MaxPoseChanges)

SpecSteady == Init /\ [][NextSteady]_vars

\* The loop while the user switches tabs.  The browser runs a timer that is
\* due, and an animation-frame callback while the document is shown; the
\* detector's promise settles.  Nothing makes the user come back to the tab.
BackgroundPoses == {Upright}

DetectorSettles ==
    \/ NoPoseDetected
    \/ DetectorThrows
    \/ \E k \in BackgroundPoses : PoseDetected(k, FramePeriod, MaxPoseChanges)

NextBackground ==
    \/ InitializeOk
    \/ \E c \in pending : RunCallback(c, MaxBackgroundTicks)
    \/ DetectorSettles
    \/ VisibilityChange

SpecBackground ==
    /\ Init
    /\ [][NextBackground]_vars
    /\ WF_vars(\E c \in pending : RunCallback(c, MaxBackgroundTicks))
    /\ WF_vars(DetectorSettles)

\* A person whose joints are detected with confidences around the guard of
\* the metric calculators.
NextVisibility ==
    \/ InitializeOk
    \/ \E c \in pending : RunCallback(c, MaxTicks)
    \/ \E k \in VisibilityPoses : PoseDetected(k, FramePeriod, MaxPoseChanges)

SpecVisibility == Init /\ [][NextVisibility]_vars

\* A person who is hardly seen, at three distances from the camera.
NextGate ==
    \/ InitializeOk
    \/ \E c \in pending : RunCallback(c, MaxTicks)
    \/ \E k \in GatePoses : PoseDetected(k, FramePeriod, MaxPoseChanges)

SpecGate == Init /\ [][NextGate]_vars

\* An engine that is stopped and initialized again, with frames that fail.
RestartPoses == {Upright, ForwardHead}

NextRestart ==
    \/ InitializeOk
    \/ \E c \in pending : RunCallback(c, MaxRestartTicks)
    \/ \E k \in RestartPoses : PoseDetected(k, FramePeriod, MaxPoseChanges)
    \/ NoPoseDetected
    \/ DetectorThrows
    \/ \E k \in RestartPoses : ExtractionThrows(Truncated(k))
    \/ VisibilityChange
    \/ Stop
    \/ Reinitialize(MaxRestartTicks)

SpecRestart == Init /\ [][NextRestart]_vars

\* A person who is faintly seen, hidden for a frame, and seen again, with
\* frames 100 ms or 2 s apart.
NextOccluded ==
    \/ InitializeOk
    \/ \E c \in pending : RunCallback(c, MaxOccludedTicks)
    \/ \E k \in OccludedPoses :
           PoseDetected(k, HysteresisDelays, MaxOccludedChanges)

SpecOccluded == Init /\ [][NextOccluded]_vars

----------------------------------------------------------------------------
(* The tracking service's operations.                                       *)

\* What the run has cost so far: the readings stored, the breaks taken, the
\* minutes of screen time counted, the pauses, and the timers created (in
\* threes).  An operation that adds to one of these is taken while the cost
\* is below MaxTrackerWork.
TrackerWork ==
    Len(data.postureHistory) + data.breakCount + data.screenTime + pauses
        + (nextInterval - 1) \div 3

\* The timers whose handles the service holds.
HeldHandles ==
    {postureCheckInterval, screenTimeInterval, sessionTimeInterval,
     breakAlertInterval} \ {NoHandle}

Running(kind) == {i \in intervals : i.kind = kind}

\* startTracking (lines 73-80) on the timers `active`, the break-alert handle
\* `oldBreakAlert` and the settings s: the alert flag is reset and the timers
\* are created with setInterval, the break-alert timer only if break alerts
\* are enabled (line 243).  The handles held before are overwritten.
StartFrom(active, oldBreakAlert, s) ==
    /\ TrackerWork < MaxTrackerWork
    /\ postureAlertActive' = FALSE
    /\ postureCheckInterval' = nextInterval
    /\ screenTimeInterval' = nextInterval + 1
    /\ sessionTimeInterval' = nextInterval + 2
    /\ breakAlertInterval' =
          IF s.enableBreakAlerts THEN nextInterval + 3 ELSE oldBreakAlert
    /\ intervals' =
          active \cup {[handle |-> nextInterval, kind |-> "postureCheck"],
                       [handle |-> nextInterval + 1, kind |-> "screenTime"],
                       [handle |-> nextInterval + 2, kind |-> "sessionTime"]}
                 \cup (IF s.enableBreakAlerts
                       THEN {[handle |-> nextInterval + 3, kind |-> "breakAlert"]}
                       ELSE {})
    /\ nextInterval' = nextInterval + (IF s.enableBreakAlerts THEN 4 ELSE 3)

\* The client calls startTracking.
StartTracking ==
    /\ StartFrom(intervals, breakAlertInterval, settings)
    /\ paused' = FALSE
    /\ UNCHANGED <<settings, data, lastPostureAlertTime, breakAlertActive,
                   lastBreakAlertTime, postureAlerts, undismissed,
                   breakAlerts, pauses, now>>
    /\ UNCHANGED engineVars

\* The timers left by the clearInterval calls of stopTracking.
AfterStop == {i \in intervals : i.handle \notin HeldHandles}

\* The client calls stopTracking (lines 82-100).
StopTracking ==
    /\ intervals' = AfterStop
    /\ postureCheckInterval' = NoHandle
    /\ screenTimeInterval' = NoHandle
    /\ sessionTimeInterval' = NoHandle
    /\ breakAlertInterval' = NoHandle
    /\ paused' = TRUE
    /\ UNCHANGED <<settings, data, lastPostureAlertTime, postureAlertActive,
                   breakAlertActive, lastBreakAlertTime, nextInterval,
                   postureAlerts, undismissed, breakAlerts, pauses, now>>
    /\ UNCHANGED engineVars

\* updateSettings (lines 124-131): the settings are replaced, then
\* stopTracking and startTracking are called.
UpdateSettings(newSettings) ==
    /\ settings' = newSettings
    /\ StartFrom(AfterStop, NoHandle, newSettings)
    /\ UNCHANGED <<data, lastPostureAlertTime, breakAlertActive,
                   lastBreakAlertTime, postureAlerts, undismissed,
                   breakAlerts, paused, pauses, now>>
    /\ UNCHANGED engineVars

\* takeBreak (lines 102-108).
TakeBreak ==
    /\ TrackerWork < MaxTrackerWork
    /\ data' = [data EXCEPT !.lastBreakTime = now, !.breakCount = @ + 1,
                            !.screenTime = 0]
    /\ breakAlertActive' = FALSE
    /\ UNCHANGED <<settings, postureCheckInterval, screenTimeInterval,
                   sessionTimeInterval, breakAlertInterval,
                   lastPostureAlertTime, postureAlertActive,
                   lastBreakAlertTime, intervals, nextInterval,
                   postureAlerts, undismissed, breakAlerts, paused, pauses,
                   now>>
    /\ UNCHANGED engineVars

\* dismissBreakAlert (lines 114-116).
DismissBreakAlert ==
    /\ breakAlertActive' = FALSE
    /\ UNCHANGED <<settings, data, postureCheckInterval, screenTimeInterval,
                   sessionTimeInterval, breakAlertInterval,
                   lastPostureAlertTime, postureAlertActive,
                   lastBreakAlertTime, intervals, nextInterval,
                   postureAlerts, undismissed, breakAlerts, paused, pauses,
                   now>>
    /\ UNCHANGED engineVars

\* dismissPostureAlert (lines 118-121), called when the user closes the
\* alert.
DismissPostureAlert ==
    /\ postureAlertActive' = FALSE
    /\ undismissed' = 0
    /\ UNCHANGED <<settings, data, postureCheckInterval, screenTimeInterval,
                   sessionTimeInterval, breakAlertInterval,
                   lastPostureAlertTime, breakAlertActive,
                   lastBreakAlertTime, intervals, nextInterval,
                   postureAlerts, breakAlerts, paused, pauses, now>>
    /\ UNCHANGED engineVars

\* Lines 163-172: the reading is stored, the last 20 are kept, the average
\* is recomputed.
WithReading(d, score) ==
    LET pushed == Append(d.postureHistory, score)
        kept == IF Len(pushed) > READINGS_KEPT THEN Tail(pushed) ELSE pushed
    IN  [d EXCEPT !.postureScore = score, !.postureHistory = kept,
                  !.averagePostureScore = (1000 * SumSeq(kept)) \div Len(kept)]

\* Lines 181-185 without the test of postureAlertActive.
canTriggerAlertIgnoringActive(score, issues) ==
    /\ settings.enableNotifications
    /\ score < 3
    /\ Len(issues) > 0
    /\ now - lastPostureAlertTime > ALERT_COOLDOWN

\* Lines 176-185: canTriggerAlert.
canTriggerAlert(score, issues) ==
    /\ settings.enableNotifications
    /\ score < 3
    /\ Len(issues) > 0
    /\ ~postureAlertActive
    /\ now - lastPostureAlertTime > ALERT_COOLDOWN

\* updatePostureScore (lines 162-210), with an onPostureAlert callback as the
\* client constructs the service.
UpdatePostureScore(score, issues) ==
    /\ TrackerWork < MaxTrackerWork
    /\ data' = WithReading(data, score)
    /\ IF canTriggerAlert(score, issues)
       THEN /\ postureAlerts' =
                   Append(postureAlerts,
                          [issues |-> <<Head(issues)>>, score |-> score,
                           at |-> now])
            /\ undismissed' = undismissed + 1
            /\ postureAlertActive' = TRUE
            /\ lastPostureAlertTime' = now
       ELSE UNCHANGED <<postureAlerts, undismissed, postureAlertActive,
                        lastPostureAlertTime>>
    /\ UNCHANGED <<settings, postureCheckInterval, screenTimeInterval,
                   sessionTimeInterval, breakAlertInterval, breakAlertActive,
                   lastBreakAlertTime, intervals, nextInterval, breakAlerts,
                   paused, pauses, now>>
    /\ UNCHANGED engineVars

\* The callback of the posture-check timer (lines 214-223) saves the data.
PostureCheckFires ==
    /\ Running("postureCheck") # {}
    /\ UNCHANGED trackerVars
    /\ UNCHANGED now
    /\ UNCHANGED engineVars

\* The callback of a screen-time timer (lines 227-231).
ScreenTimeFires ==
    /\ Running("screenTime") # {}
    /\ TrackerWork < MaxTrackerWork
    /\ data' = [data EXCEPT !.screenTime = @ + 1]
    /\ UNCHANGED <<settings, postureCheckInterval, screenTimeInterval,
                   sessionTimeInterval, breakAlertInterval,
                   lastPostureAlertTime, postureAlertActive,
                   breakAlertActive, lastBreakAlertTime, intervals,
                   nextInterval, postureAlerts, undismissed, breakAlerts,
                   paused, pauses, now>>
    /\ UNCHANGED engineVars

\* The callback of a session-time timer (lines 235-239).
SessionTimeFires ==
    /\ Running("sessionTime") # {}
    /\ data' = [data EXCEPT !.sessionTime = (now - data.startTime) \div MINUTE]
    /\ UNCHANGED <<settings, postureCheckInterval, screenTimeInterval,
                   sessionTimeInterval, breakAlertInterval,
                   lastPostureAlertTime, postureAlertActive,
                   breakAlertActive, lastBreakAlertTime, intervals,
                   nextInterval, postureAlerts, undismissed, breakAlerts,
                   paused, pauses, now>>
    /\ UNCHANGED engineVars

\* The callback of a break-alert timer (lines 245-260), with an onBreakAlert
\* callback as the client constructs the service.
BreakAlertFires ==
    /\ Running("breakAlert") # {}
    /\ IF /\ (now - data.lastBreakTime) \div MINUTE >= settings.reminderInterval
          /\ ~breakAlertActive
          /\ now - lastBreakAlertTime > BREAK_ALERT_COOLDOWN
       THEN /\ breakAlertActive' = TRUE
            /\ lastBreakAlertTime' = now
            /\ breakAlerts' = breakAlerts + 1
       ELSE UNCHANGED <<breakAlertActive, lastBreakAlertTime, breakAlerts>>
    /\ UNCHANGED <<settings, data, postureCheckInterval, screenTimeInterval,
                   sessionTimeInterval, breakAlertInterval,
                   lastPostureAlertTime, postureAlertActive, intervals,
                   nextInterval, postureAlerts, undismissed, paused, pauses,
                   now>>
    /\ UNCHANGED engineVars

\* Time passes: the next Date.now() reads `pause` ms more.  A timer that is
\* running may fire at any moment after.
TimePasses(pause) ==
    /\ TrackerWork < MaxTrackerWork
    /\ pauses' = pauses + 1
    /\ now' = now + pause
    /\ UNCHANGED <<settings, data, postureCheckInterval, screenTimeInterval,
                   sessionTimeInterval, breakAlertInterval,
                   lastPostureAlertTime, postureAlertActive,
                   breakAlertActive, lastBreakAlertTime, intervals,
                   nextInterval, postureAlerts, undismissed, breakAlerts,
                   paused>>
    /\ UNCHANGED engineVars

\* What the client passes to updatePostureScore, and how long it waits.
Scores == {2, 3}
IssueLists == {<<>>, <<ForwardHeadText, RepositionText>>}
Pauses == {60000, 60001}

NextTracking ==
    \/ StartTracking
    \/ StopTracking
    \/ \E s \in SettingsChoices : UpdateSettings(s)
    \/ TakeBreak
    \/ DismissBreakAlert
    \/ DismissPostureAlert
    \/ \E score \in Scores, issues \in IssueLists :
           UpdatePostureScore(score, issues)
    \/ PostureCheckFires
    \/ ScreenTimeFires
    \/ SessionTimeFires
    \/ BreakAlertFires
    \/ \E pause \in Pauses : TimePasses(pause)

SpecTracking == Init /\ [][NextTracking]_vars

----------------------------------------------------------------------------
(* Properties.                                                              *)

InSeq(x, s) == \E i \in 1..Len(s) : s[i] = x

\* The latest n analysed frames, oldest first.
Recent(n) == SubSeq(frameLog, Len(frameLog) - n + 1, Len(frameLog))

Shown(frame, issue) == InSeq(IssueText(issue), frame.analysis.issues)

\* The latest detectPose invocation analysed a frame and published.
JustPublished == lastTick.outcome = "pose" /\ lastTick.emitted

\* C1 (as claimed): an issue whose string is in the analysis of a
\* non-degraded frame was flagged on that frame and on the two analysed frames
\* right before it.
C1_ShownOnlyAfterThreeConsecutive ==
    \A k \in IssueKeys :
        (frameLog # <<>> /\ ~Last(frameLog).degraded /\ Shown(Last(frameLog), k))
            => /\ Len(frameLog) >= 3
               /\ \A i \in 1..3 : k \in Recent(3)[i].potential

\* C1 (amended): an issue whose string is in the analysis of a non-degraded
\* frame is flagged on that frame and has been flagged on at least three
\* frames, this one included, since its counter was last zero; the frames
\* need not be consecutive.
C1_ShownNeedsThreeFlaggedFrames ==
    \A k \in IssueKeys :
        (frameLog # <<>> /\ ~Last(frameLog).degraded /\ Shown(Last(frameLog), k))
            => /\ k \in Last(frameLog).potential
               /\ Last(frameLog).evidence[k] >= 3

\* An issue is shown on the first qualifying frame after a frame that did not
\* flag it.
C1_Witness ==
    /\ Len(frameLog) >= 2
    /\ ~Last(frameLog).degraded
    /\ ~Recent(2)[1].degraded
    /\ Shown(Last(frameLog), "forward_head")
    /\ "forward_head" \notin Recent(2)[1].potential
    /\ Last(frameLog).evidence["forward_head"] >= 3

\* C2: in a non-degraded frame an issue's string is in the issue list exactly
\* when its counter after the frame's update is at least 3 and the issue is
\* flagged in the frame.
C2_ShownIffConsistentAndFlagged ==
    (frameLog # <<>> /\ ~Last(frameLog).degraded)
        => \A k \in IssueKeys :
               Shown(Last(frameLog), k)
                   <=> /\ CountOf(Last(frameLog).after, k) >= 3
                       /\ k \in Last(frameLog).potential

\* A shown issue disappears on the first frame that does not flag it although
\* its counter is still 3 after the decrement.
C2_Witness ==
    /\ Len(frameLog) >= 2
    /\ ~Last(frameLog).degraded
    /\ Shown(Recent(2)[1], "forward_head")
    /\ "forward_head" \notin Last(frameLog).potential
    /\ CountOf(Last(frameLog).after, "forward_head") >= 3
    /\ ~Shown(Last(frameLog), "forward_head")

\* Four consecutive non-degraded frames with neckAngle 35, the first of them
\* met with empty counters.
FourFramesAt35 ==
    /\ Len(frameLog) >= 4
    /\ Recent(4)[1].before = <<>>
    /\ \A i \in 1..4 : /\ ~Recent(4)[i].degraded
                       /\ Recent(4)[i].analysis.neckAngle = 35000

ForwardHeadIn(frame) == InSeq(ForwardHeadText, frame.analysis.issues)

\* C3 (as claimed): the forward-head string is absent from frames 0, 1 and 2
\* and present in frame 3.
C3_ForwardHeadFirstInFrame3 ==
    FourFramesAt35
        => /\ \A i \in 1..3 : ~ForwardHeadIn(Recent(4)[i])
           /\ ForwardHeadIn(Recent(4)[4])

\* C3 (amended): when no smoothing pass clears the counters between the four
\* frames, the string is absent from frames 0 and 1 and present in frames 2
\* and 3.
C3_ForwardHeadFirstInFrame2 ==
    (FourFramesAt35 /\ \A i \in 1..3 : ~Recent(4)[i].cleared)
        => /\ ~ForwardHeadIn(Recent(4)[1])
           /\ ~ForwardHeadIn(Recent(4)[2])
           /\ ForwardHeadIn(Recent(4)[3])
           /\ ForwardHeadIn(Recent(4)[4])

C3_Witness ==
    /\ FourFramesAt35
    /\ \A i \in 1..3 : ~Recent(4)[i].cleared
    /\ ForwardHeadIn(Recent(4)[3])

\* No negative issue is shown in the frame that meets empty counters nor in
\* the frame after it.
ThreeFramesToReappear ==
    \A i \in 1..Len(frameLog) :
        frameLog[i].before = <<>>
            => \A j \in {i, i + 1} \cap 1..Len(frameLog) :
                   ~frameLog[j].degraded
                       => \A k \in IssueKeys : ~Shown(frameLog[j], k)

\* C4 (as claimed): after a smoothing pass whose mean score is 8.0 or more
\* there is no counter left.
C4_ClearsAtEightOrMore ==
    (JustPublished /\ ScoreSum(postureHistory) >= 8000 * Len(postureHistory))
        => issueConsistency = <<>>

\* C4 (amended): after a smoothing pass whose mean score is above 8.0 there is
\* no counter left, and an issue needs three qualifying frames from empty
\* counters before its string is shown.
C4_ClearsAboveEight ==
    /\ (JustPublished /\ ScoreSum(postureHistory) > 8000 * Len(postureHistory))
           => issueConsistency = <<>>
    /\ ThreeFramesToReappear

\* A smoothing pass with a mean above 8.0 wiped counters that the frame had
\* left.
C4_Witness ==
    /\ JustPublished
    /\ ScoreSum(postureHistory) > 8000 * Len(postureHistory)
    /\ Last(frameLog).after # <<>>
    /\ issueConsistency = <<>>

\* C5: every per-frame analysis and every published analysis has a score in
\* [2, 10]; a degraded analysis has 5 or 7.5; the placeholder of an empty
\* history (score 85) is never published.
C5_ScoresWithinRange ==
    /\ \A i \in 1..Len(produced) :
           /\ produced[i].score >= 2000
           /\ produced[i].score <= 10000
    /\ \A i \in 1..Len(frameLog) :
           frameLog[i].degraded => frameLog[i].analysis.score \in {5000, 7500}
    /\ \A i \in 1..Len(published) :
           /\ published[i].analysis.score >= 2000
           /\ published[i].analysis.score <= 10000
           /\ published[i].analysis.issues # <<"Initializing posture analysis...">>

\* A frame whose penalties exceed 8 was floored at 2 and published.
C5_Witness ==
    /\ JustPublished
    /\ ~Last(frameLog).degraded
    /\ Last(frameLog).analysis.score = 2000
    /\ Cardinality(Last(frameLog).potential) >= 5

\* The last min(N, 12) per-frame analyses produced so far.
LastWindow ==
    SubSeq(produced, Max(1, Len(produced) - 11), Len(produced))

MetricFields ==
    {"neckAngle", "shoulderAlignment", "spineAlignment", "headPosition",
     "shoulderHeight"}

FieldSum(history, field) == SumSeq(Column(history, field))

\* value is the multiple of step nearest to sum / n.
NearestTo(value, sum, n, step) ==
    /\ value % step = 0
    /\ 2 * value * n - 2 * sum <= n * step
    /\ 2 * sum - 2 * value * n <= n * step

\* C6 (as claimed): the score and the five metrics of a published analysis
\* equal the arithmetic mean of the field over the last min(N, 12) per-frame
\* analyses.
C6_PublishedEqualsMean ==
    JustPublished
        => /\ Last(published).analysis.score * Len(LastWindow)
                  = FieldSum(LastWindow, "score")
           /\ \A f \in MetricFields :
                  Last(published).analysis[f] * Len(LastWindow)
                      = FieldSum(LastWindow, f)

\* C6 (amended): the window is the last min(N, 12) per-frame analyses; the
\* published score is their mean score rounded to the nearest integer and
\* each published metric is the mean of the metric rounded to one decimal.
C6_PublishedEqualsRoundedMean ==
    /\ postureHistory = LastWindow
    /\ Len(postureHistory) <= 12
    /\ JustPublished
           => /\ NearestTo(Last(published).analysis.score,
                           FieldSum(LastWindow, "score"), Len(LastWindow), 1000)
              /\ \A f \in MetricFields :
                     NearestTo(Last(published).analysis[f],
                               FieldSum(LastWindow, f), Len(LastWindow), 100)

\* More than 12 analyses were produced, the oldest were evicted, and the mean
\* score of the window is not an integer.
C6_Witness ==
    /\ JustPublished
    /\ Len(produced) > 12
    /\ produced[1] # LastWindow[1]
    /\ FieldSum(LastWindow, "score") % (1000 * Len(LastWindow)) # 0

\* C7: the issue list of a published analysis is the issue list of the most
\* recent per-frame analysis, the one that triggered the publication.
C7_PublishedIssuesAreLatest ==
    JustPublished
        => /\ Last(published).analysis.issues = Last(produced).issues
           /\ Last(postureHistory) = Last(produced)

\* An older analysis of the window carries a string the published list lacks.
C7_Witness ==
    /\ JustPublished
    /\ Len(postureHistory) >= 2
    /\ \E i \in 1..Len(postureHistory) - 1 :
           \E j \in 1..Len(postureHistory[i].issues) :
               ~InSeq(postureHistory[i].issues[j],
                      Last(published).analysis.issues)

\* C8: a completed per-frame analysis is published exactly when 2000 ms or more
\* have passed since the last publication, and the time of the publication is
\* then recorded; otherwise the publications, the recorded time and the current
\* analysis stay as they are.  Two consecutive publications are at least
\* 2000 ms apart.
C8_PublishesIffIntervalElapsed ==
    /\ [][Len(produced') = Len(produced) + 1
             => IF now' - lastUpdateTime >= 2000
                THEN /\ Len(published') = Len(published) + 1
                     /\ Last(published').at = now'
                     /\ currentAnalysis' = Last(published').analysis
                     /\ lastUpdateTime' = now'
                ELSE UNCHANGED <<published, lastUpdateTime,
                                 currentAnalysis>>]_vars
    /\ [](\A i \in 2..Len(published) :
              published[i].at - published[i - 1].at >= 2000)

\* Two publications exactly 2000 ms apart with an unpublished analysis in
\* between.
C8_Witness ==
    /\ Len(published) = 2
    /\ published[2].at - published[1].at = 2000
    /\ Len(produced) = 3
    /\ lastUpdateTime = published[2].at

\* C9: with an analysis every 100 ms, N completed analyses have led to one
\* publication per 20 frames, the first on the first frame; a publication
\* carries the time of the frame that triggered it and the smoothing of the
\* history that ends with that frame.
C9_OnePublicationPerTwentyFrames ==
    /\ Len(published) =
           IF produced = <<>> THEN 0 ELSE (Len(produced) - 1) \div 20 + 1
    /\ \A i \in 1..Len(published) :
           published[i].at = StartTime + 100 + 2000 * (i - 1)
    /\ JustPublished
           => /\ Last(published).at = now
              /\ Last(postureHistory) = Last(produced)
              /\ Last(published).analysis.issues = Last(produced).issues

\* The 21st analysis led to the second publication.
C9_Witness ==
    /\ Len(produced) = 21
    /\ Len(published) = 2
    /\ JustPublished

\* C10: in a started engine exactly one invocation of detectPose is either
\* suspended in the detector or scheduled, and every invocation that ends
\* (with a pose, without one, or with an exception) schedules exactly one
\* next invocation and cancels none.
C10_EveryTickSchedulesTheNext ==
    /\ [](lifecycle = "started" => awaiting + Cardinality(pending) = 1)
    /\ [][(lifecycle = "started" /\ awaiting' = awaiting - 1)
             => /\ pending \subseteq pending'
                /\ Cardinality(pending' \ pending) = 1]_vars

\* The detector threw and the next invocation is scheduled.
C10_Witness ==
    /\ lifecycle = "started"
    /\ lastTick.outcome = "throw"
    /\ awaiting = 0
    /\ Cardinality(pending) = 1

\* C11 (as claimed): once stop() has returned no detectPose invocation starts
\* or continues and nothing is published.
C11_NothingRunsAfterStop ==
    [][lifecycle = "stopped"
          => /\ ticks' = ticks
             /\ awaiting' = awaiting
             /\ published' = published]_vars

\* C12 (as claimed): when stop() returns the current analysis is null and
\* both history windows are empty.
C12_StopClearsDerivedState ==
    [][(lifecycle = "started" /\ lifecycle' = "stopped")
          => /\ currentAnalysis' = NoAnalysis
             /\ postureHistory' = <<>>
             /\ landmarkHistory' = <<>>]_vars

\* C13: after a failed initialize the error callback was invoked once, the
\* engine is not initialized and has no detector, no detectPose invocation
\* has started, is suspended or is scheduled, and nothing is published.
C13_FailedInitializeStartsNothing ==
    lifecycle = "failed"
        => /\ errors = 1
           /\ ~isInitialized
           /\ ~detector
           /\ ticks = 0
           /\ awaiting = 0
           /\ pending = {}
           /\ animationFrame = NoHandle
           /\ published = <<>>
           /\ produced = <<>>
           /\ currentAnalysis = NoAnalysis

\* initialize failed and the page visibility changed afterwards.
C13_Witness ==
    /\ lifecycle = "failed"
    /\ errors = 1
    /\ ~isPageVisible
    /\ ticks = 0

\* C14 (as claimed): in a started engine whose listener has seen the page
\* become hidden, with the next detectPose scheduled, a detectPose invocation
\* eventually runs unless the page is shown again first.
C14_TicksContinueWhileHidden ==
    (/\ documentHidden
     /\ ~isPageVisible
     /\ lifecycle = "started"
     /\ awaiting = 0
     /\ ticks < MaxBackgroundTicks)
        ~> (awaiting > 0 \/ ~documentHidden)

\* Every joint of js has a visibility below 0.5 in the landmark frame.
AllBelowHalf(landmarks, js) == \A j \in js : landmarks[j].visibility < 500

\* C15: when every joint a metric is computed from has a visibility below
\* 0.5 in the smoothed landmark frame, the metric of the per-frame analysis
\* is 0.
C15_UnseenJointsGiveZeroMetric ==
    produced # <<>>
        => \A landmarks \in {smoothLandmarks(landmarkHistory)} :
              /\ AllBelowHalf(landmarks, {"nose", "leftEar", "leftShoulder"})
                     => Last(produced).neckAngle = 0
              /\ AllBelowHalf(landmarks, {"leftShoulder", "rightShoulder"})
                     => /\ Last(produced).shoulderAlignment = 0
                        /\ Last(produced).shoulderHeight = 0
              /\ AllBelowHalf(landmarks, {"leftShoulder", "rightShoulder",
                                          "leftHip", "rightHip"})
                     => Last(produced).spineAlignment = 0
              /\ AllBelowHalf(landmarks, {"leftEar", "rightEar", "nose"})
                     => Last(produced).headPosition = 0

\* The shoulders were seen and are no longer: the two shoulder metrics went
\* from above zero to zero while the head tilt is still measured.
C15_Witness ==
    /\ Len(produced) >= 2
    /\ produced[Len(produced) - 1].shoulderHeight > 0
    /\ produced[Len(produced) - 1].shoulderAlignment > 0
    /\ AllBelowHalf(smoothLandmarks(landmarkHistory),
                    {"leftShoulder", "rightShoulder"})
    /\ Last(produced).shoulderHeight = 0
    /\ Last(produced).shoulderAlignment = 0
    /\ Last(produced).headPosition > 0

\* Fewer than 2 of nose, leftShoulder, rightShoulder have a visibility
\* above 0.2.
BelowGate(landmarks) ==
    Cardinality({j \in {"nose", "leftShoulder", "rightShoulder"} :
                    landmarks[j].visibility > 200}) < 2

\* The shoulders are less than 0.1 apart.
ShouldersClose(landmarks) ==
    (landmarks.leftShoulder.x - landmarks.rightShoulder.x)
        * (landmarks.leftShoulder.x - landmarks.rightShoulder.x)
    + (landmarks.leftShoulder.y - landmarks.rightShoulder.y)
        * (landmarks.leftShoulder.y - landmarks.rightShoulder.y)
    < 100 * 100

ShouldersSeen(landmarks) ==
    /\ landmarks.leftShoulder.visibility > 100
    /\ landmarks.rightShoulder.visibility > 100

\* The analysis is the degraded one with the given score and single issue,
\* and the frame left the counters alone.
DegradedWith(frame, score, issue) ==
    /\ frame.analysis = [score |-> score, issues |-> <<issue>>,
                         neckAngle |-> 0, shoulderAlignment |-> 0,
                         spineAlignment |-> 0, headPosition |-> 0,
                         shoulderHeight |-> 0]
    /\ frame.after = frame.before

\* C16 (as claimed): below the gate the analysis is the too-far one (score 5)
\* whenever the shoulders are less than 0.1 apart, the reposition one
\* (score 7.5) otherwise.
C16_TooFarWheneverShouldersClose ==
    frameLog # <<>>
        => \A landmarks \in {smoothLandmarks(landmarkHistory)} :
              BelowGate(landmarks)
                  => IF ShouldersClose(landmarks)
                     THEN DegradedWith(Last(frameLog), 5000, TooFarText)
                     ELSE DegradedWith(Last(frameLog), 7500, RepositionText)

\* C16 (amended): below the gate the analysis is the too-far one (score 5)
\* when both shoulders have a visibility above 0.1 and are less than 0.1
\* apart, the reposition one (score 7.5) otherwise.
C16_TooFarWhenSeenShouldersClose ==
    frameLog # <<>>
        => \A landmarks \in {smoothLandmarks(landmarkHistory)} :
              BelowGate(landmarks)
                  => IF ShouldersSeen(landmarks) /\ ShouldersClose(landmarks)
                     THEN DegradedWith(Last(frameLog), 5000, TooFarText)
                     ELSE DegradedWith(Last(frameLog), 7500, RepositionText)

\* Shoulders 0.04 apart that are not seen gave the reposition analysis in the
\* first frame; seen in the second frame, they give the too-far analysis.
C16_Witness ==
    /\ Len(frameLog) = 2
    /\ BelowGate(landmarkHistory[1])
    /\ ShouldersClose(landmarkHistory[1])
    /\ ~ShouldersSeen(landmarkHistory[1])
    /\ frameLog[1].analysis.score = 7500
    /\ BelowGate(smoothLandmarks(landmarkHistory))
    /\ ShouldersSeen(smoothLandmarks(landmarkHistory))
    /\ frameLog[2].analysis.score = 5000

\* C17 (as claimed): a joint that has no entry with a visibility above 0.1 in
\* a window of two or more frames is smoothed to its value in the most
\* recent frame of the window.
C17_FallbackIsMostRecent ==
    Len(landmarkHistory) >= 2
        => \A landmarks \in {smoothLandmarks(landmarkHistory)} :
              \A j \in Joints :
                  (\A i \in 1..Len(landmarkHistory) :
                       landmarkHistory[i][j].visibility <= 100)
                      => landmarks[j] = Last(landmarkHistory)[j]

\* C18 (as claimed): smoothLandmarks raises on no window of the engine, the
\* empty one included, and returns a frame of the 17 joints.
C18_SmoothLandmarksNeverThrows ==
    /\ ~smoothLandmarksThrows(landmarkHistory)
    /\ DOMAIN smoothLandmarks(landmarkHistory) = Joints

\* C19 (as claimed): a per-frame analysis that carries a positive-feedback
\* string shows no negative issue string.
C19_PositiveOnlyWithoutNegative ==
    \A i \in 1..Len(frameLog) :
        (\E text \in PositiveTexts : InSeq(text, frameLog[i].analysis.issues))
            => \A k \in IssueKeys : ~Shown(frameLog[i], k)

\* The penalty of a flagged issue, from the metrics of the analysis.
PenaltyOf(issue, analysis) ==
    CASE issue = "forward_head" ->
             Min(2000, (analysis.neckAngle * 8) \div 100)
      [] issue = "slight_forward_head" ->
             Min(800, (analysis.neckAngle * 4) \div 100)
      [] issue = "uneven_shoulders" ->
             Min(1500, (analysis.shoulderAlignment * 8) \div 100)
      [] issue = "slight_shoulder_imbalance" ->
             Min(600, (analysis.shoulderAlignment * 4) \div 100)
      [] issue = "head_tilt" ->
             Min(1800, (analysis.headPosition * 8) \div 100)
      [] issue = "slight_head_tilt" ->
             Min(700, (analysis.headPosition * 4) \div 100)
      [] issue = "shoulder_height_imbalance" ->
             Min(1200, (analysis.shoulderHeight * 5) \div 100)
      [] issue = "slight_shoulder_height" ->
             Min(400, (analysis.shoulderHeight * 15) \div 1000)
      [] issue = "spine_alignment" ->
             Min(1000, (analysis.spineAlignment * 4) \div 100)
      [] issue = "slight_spine_deviation" ->
             Min(400, (analysis.spineAlignment * 15) \div 1000)
      [] issue = "slouching" -> 1300
      [] issue = "head_neck_alignment" -> 1000
      [] issue = "slight_head_neck" -> 500
      [] issue = "too_close_to_camera" -> 2000
      [] issue = "too_far_from_camera" -> 2000

RECURSIVE PenaltySum(_, _)
PenaltySum(issues, analysis) ==
    IF issues = {} THEN 0
    ELSE LET issue == CHOOSE k \in issues : TRUE
         IN  PenaltyOf(issue, analysis)
                 + PenaltySum(issues \ {issue}, analysis)

\* C20: the score of a non-degraded frame is 10 less the penalties of all the
\* issues flagged in the frame, clamped to [2, 10], whatever the counters.
C20_ScoreIsTenLessFlaggedPenalties ==
    \A i \in 1..Len(frameLog) :
        ~frameLog[i].degraded
            => \E total \in {10000 - PenaltySum(frameLog[i].potential,
                                                frameLog[i].analysis)} :
                  frameLog[i].analysis.score
                      = IF total < 2000 THEN 2000
                        ELSE IF total > 10000 THEN 10000 ELSE total

\* A first frame with neckAngle 35 scores 7 (10 less 2.0 for the forward head
\* and 1 for the head/neck alignment) although neither issue is shown yet.
C20_Witness ==
    /\ Len(frameLog) = 1
    /\ ~frameLog[1].degraded
    /\ frameLog[1].before = <<>>
    /\ frameLog[1].analysis.neckAngle = 35000
    /\ frameLog[1].potential = {"forward_head", "head_neck_alignment"}
    /\ \A k \in IssueKeys : ~Shown(frameLog[1], k)
    /\ frameLog[1].analysis.score = 7000

\* The counter rule of lines 506-519 on the latest analysed frame.
CounterRule(frame) ==
    \A k \in IssueKeys :
        CountOf(frame.after, k)
            = IF k \in frame.potential THEN CountOf(frame.before, k) + 1
              ELSE Max(0, CountOf(frame.before, k) - 3)

\* C22 (as claimed): in a non-degraded frame a tracked issue that is not
\* flagged has its counter lowered by 3 with a floor of 0 and a counter that
\* reaches 0 is removed from the tracked set, a flagged issue has its counter
\* raised by 1, and no counter is negative.
C22_ZeroCounterIsRemoved ==
    \A i \in 1..Len(frameLog) :
        ~frameLog[i].degraded
            => /\ CounterRule(frameLog[i])
               /\ \A k \in Tracked(frameLog[i].after) :
                      CountOf(frameLog[i].after, k) > 0

\* C22 (amended): in a non-degraded frame a tracked issue that is not flagged
\* has its counter lowered by 3 with a floor of 0 and stays tracked, with a
\* counter of 0 if it reached the floor; a flagged issue has its counter raised
\* by 1; no counter is negative.  The counters at 0 are removed by the smoothing
\* pass, that is only on a frame that publishes.
C22_ZeroCounterStaysUntilPublication ==
    /\ \A i \in 1..Len(frameLog) :
          ~frameLog[i].degraded
              => /\ CounterRule(frameLog[i])
                 /\ Tracked(frameLog[i].after)
                       = Tracked(frameLog[i].before) \cup frameLog[i].potential
                 /\ \A j \in 1..Len(frameLog[i].after) :
                       frameLog[i].after[j].count >= 0
    /\ \A j \in 1..Len(issueConsistency) : issueConsistency[j].count >= 0
    /\ lastTick.outcome = "pose"
          => IF lastTick.emitted
             THEN \A j \in 1..Len(issueConsistency) :
                      issueConsistency[j].count > 0
             ELSE issueConsistency = Last(frameLog).after

\* Frames 100 ms apart: the forward head is flagged on three frames and not on
\* the next, which does not publish.  The counter goes from 3 to 0 and the key
\* is still tracked after that frame.
C22_Witness ==
    /\ Len(frameLog) >= 2
    /\ lastTick.outcome = "pose"
    /\ ~lastTick.emitted
    /\ ~Last(frameLog).degraded
    /\ CountOf(Last(frameLog).before, "forward_head") = 3
    /\ "forward_head" \notin Last(frameLog).potential
    /\ "forward_head" \in Tracked(issueConsistency)
    /\ CountOf(issueConsistency, "forward_head") = 0

\* C23 (as claimed): after every analysed frame whose window mean exceeds 8.0
\* all the counters are empty, whether or not the frame publishes.
C23_ClearedOnEveryHighFrame ==
    (lastTick.outcome = "pose" /\ HighScore(postureHistory))
        => issueConsistency = <<>>

\* C23 (amended): the high-score clear is a step of the smoothing pass, which
\* runs only on a frame that publishes.  After a publishing frame whose window
\* mean exceeds 8.0 all the counters are empty; a frame that does not publish
\* leaves the counters as its counter update left them, also when the window
\* mean exceeds 8.0.
C23_ClearedOnlyOnPublication ==
    lastTick.outcome = "pose"
        => IF lastTick.emitted
           THEN HighScore(postureHistory) => issueConsistency = <<>>
           ELSE issueConsistency = Last(frameLog).after

\* A second frame 100 ms after the first: the window mean is 9 and the
\* counter of the issue flagged on it stands at 1.
C23_Witness ==
    /\ lastTick.outcome = "pose"
    /\ ~lastTick.emitted
    /\ HighScore(postureHistory)
    /\ ~Last(frameLog).degraded
    /\ \E k \in Last(frameLog).potential : CountOf(issueConsistency, k) >= 1

\* C24: the counter of an issue goes down, or the issue leaves the tracked
\* set with a positive counter, only in a step that analyses a frame on which
\* the issue is not flagged or that clears the counters after a window mean
\* above 8.0; every other step (stop, a visibility change, a frame that
\* throws, a frame without a pose, initialize called again) leaves the
\* counters as they are.
C24_CountersFallOnlyByRule ==
    [][/\ \A k \in IssueKeys :
             CountOf(issueConsistency', k) < CountOf(issueConsistency, k)
                 => /\ Len(produced') = Len(produced) + 1
                    /\ \/ Last(frameLog').cleared
                       \/ /\ ~Last(frameLog').degraded
                          /\ k \notin Last(frameLog').potential
       /\ Len(produced') = Len(produced)
             => issueConsistency' = issueConsistency]_vars

\* An engine that published an analysis with a counter left positive, was
\* stopped and initialized again: the counter is still there.
C24_Witness ==
    /\ lifecycle = "started"
    /\ published # <<>>
    /\ currentAnalysis = NoAnalysis
    /\ CountOf(issueConsistency, "forward_head") >= 1

\* C26: a detectPose invocation in which the detector rejects, or the
\* keypoints cannot be extracted, leaves the landmark window, the analysis
\* window, the counters, the time of the last publication and the current
\* analysis as they were, and publishes nothing.
C26_FailedFrameIsSkipped ==
    [][(awaiting' = awaiting - 1 /\ lastTick'.outcome = "throw")
          => UNCHANGED <<landmarkHistory, postureHistory, issueConsistency,
                         lastUpdateTime, currentAnalysis, published,
                         produced>>]_vars

\* A frame fails after a frame that was analysed and published with a
\* counter left standing.
C26_Witness ==
    /\ lastTick.outcome = "throw"
    /\ Len(landmarkHistory) >= 1
    /\ Len(postureHistory) >= 1
    /\ issueConsistency # <<>>
    /\ currentAnalysis # NoAnalysis
    /\ lastUpdateTime > 0
    /\ Len(published) >= 1

SomeBelowHalf(landmarks, js) == \E j \in js : landmarks[j].visibility < 500

\* None of the issues is flagged in the frame.
NoneFlagged(frame, issues) == frame.potential \cap issues = {}

\* C25: in a non-degraded frame, a computation of which some joint has a
\* visibility below 0.5 in the smoothed landmark frame returns its default,
\* and none of the issues derived from it is flagged in the frame.
C25_UnseenJointFlagsNothing ==
    (lastTick.outcome = "pose" /\ ~Last(frameLog).degraded)
        => \A landmarks \in {smoothLandmarks(landmarkHistory)} :
              /\ SomeBelowHalf(landmarks, {"nose", "leftEar", "leftShoulder"})
                    => /\ calculateNeckAngle(landmarks) = 0
                       /\ NoneFlagged(Last(frameLog),
                                      {"forward_head", "slight_forward_head"})
              /\ SomeBelowHalf(landmarks, {"leftShoulder", "rightShoulder"})
                    => /\ calculateShoulderAlignment(landmarks) = 0
                       /\ calculateShoulderHeight(landmarks) = 0
                       /\ NoneFlagged(Last(frameLog),
                                      {"uneven_shoulders",
                                       "slight_shoulder_imbalance",
                                       "shoulder_height_imbalance",
                                       "slight_shoulder_height"})
              /\ SomeBelowHalf(landmarks, {"leftEar", "rightEar", "nose"})
                    => /\ calculateHeadPosition(landmarks) = 0
                       /\ NoneFlagged(Last(frameLog),
                                      {"head_tilt", "slight_head_tilt"})
              /\ SomeBelowHalf(landmarks, {"leftShoulder", "rightShoulder",
                                           "leftHip", "rightHip"})
                    => /\ calculateSpineAlignment(landmarks) = 0
                       /\ ~detectSlouching(landmarks)
                       /\ NoneFlagged(Last(frameLog),
                                      {"spine_alignment",
                                       "slight_spine_deviation", "slouching"})
              /\ SomeBelowHalf(landmarks, {"nose", "leftShoulder",
                                           "rightShoulder"})
                    => /\ ~detectTooCloseToCamera(landmarks)
                       /\ ~detectTooFarFromCamera(landmarks)
                       /\ NoneFlagged(Last(frameLog),
                                      {"too_close_to_camera",
                                       "too_far_from_camera"})
              /\ SomeBelowHalf(landmarks, {"nose", "leftEar", "rightEar",
                                           "leftShoulder", "rightShoulder"})
                    => /\ calculateHeadNeckScore(landmarks) = 0
                       /\ NoneFlagged(Last(frameLog),
                                      {"head_neck_alignment",
                                       "slight_head_neck"})

\* The counters are the same in value.
SameCounts(a, b) == \A k \in IssueKeys : CountOf(a, k) = CountOf(b, k)

\* C28 (as claimed): a degraded frame leaves every counter unchanged.
C28_DegradedFrameKeepsCounters ==
    (lastTick.outcome = "pose" /\ Last(frameLog).degraded)
        => SameCounts(issueConsistency, Last(frameLog).before)

\* C28 (amended): the analysis of a degraded frame leaves every counter
\* unchanged, and so does the frame unless it publishes with a window mean
\* above 8.0, which clears the counters.  Two qualifying frames separated only
\* by degraded frames, none of which cleared, accumulate as if consecutive.
C28_DegradedFrameKeepsCountersUnlessCleared ==
    /\ \A i \in 1..Len(frameLog) :
          frameLog[i].degraded => frameLog[i].after = frameLog[i].before
    /\ (lastTick.outcome = "pose" /\ Last(frameLog).degraded)
          => IF Last(frameLog).cleared
             THEN /\ lastTick.emitted
                  /\ HighScore(postureHistory)
                  /\ issueConsistency = <<>>
             ELSE SameCounts(issueConsistency, Last(frameLog).before)
    /\ \A i, j \in 1..Len(frameLog) :
          (/\ i + 1 < j
           /\ \A m \in (i + 1)..(j - 1) :
                 frameLog[m].degraded /\ ~frameLog[m].cleared
           /\ ~frameLog[i].cleared)
              => SameCounts(frameLog[j].before, frameLog[i].after)

\* Two faint frames, a frame below the gate, an upright frame, 100 ms apart:
\* the head/neck counter goes 1, 1, 2 over the last three.
C28_Witness ==
    /\ Len(frameLog) >= 3
    /\ \E f \in {Recent(3)} :
          /\ ~f[1].degraded /\ f[2].degraded /\ ~f[3].degraded
          /\ CountOf(f[1].after, "head_neck_alignment") = 1
          /\ CountOf(f[2].after, "head_neck_alignment") = 1
          /\ CountOf(f[3].after, "head_neck_alignment") = 2

\* C29: an analysis published on a frame that is at least the third of a run
\* of analysed frames all flagging an issue contains the string of that
\* issue, whatever the time between the frames and whatever the window mean
\* at the publications.
C29_SustainedIssueIsPublished ==
    (JustPublished /\ Len(frameLog) >= 3)
        => \A k \in IssueKeys :
              (\A i \in 1..3 : /\ ~Recent(3)[i].degraded
                               /\ k \in Recent(3)[i].potential)
                  => InSeq(IssueText(k), Last(published).analysis.issues)

\* The step raises a posture alert.
RaisesPostureAlert == Len(postureAlerts') > Len(postureAlerts)

\* C21 (amended): updatePostureScore raises a posture alert only when
\* notifications are enabled, the score is below 3, the issue list is not
\* empty, the flag postureAlertActive is not set and more than 60 s have
\* passed since the previous alert, after any calls of updatePostureScore,
\* dismissPostureAlert, startTracking, stopTracking and updateSettings.  The
\* flag is set by the alert and cleared only by dismissPostureAlert and by
\* startTracking, also the startTracking inside updateSettings.
C21_AlertOnlyWhenFlagIsClear ==
    [][/\ RaisesPostureAlert
             => /\ settings.enableNotifications
                /\ Last(postureAlerts').score < 3
                /\ Len(Last(postureAlerts').issues) > 0
                /\ ~postureAlertActive
                /\ postureAlertActive'
                /\ postureAlerts # <<>>
                      => now - Last(postureAlerts).at > ALERT_COOLDOWN
       /\ (postureAlertActive /\ ~postureAlertActive')
             => (undismissed' = 0 \/ nextInterval' > nextInterval)]_vars

\* An alert is raised, dismissed, and a minute later a second one is raised.
C21_Witness ==
    /\ Len(postureAlerts) = 2
    /\ postureAlerts[2].at - postureAlerts[1].at > ALERT_COOLDOWN
    /\ postureAlertActive
    /\ undismissed = 1

\* C21 (as claimed): updatePostureScore raises a posture alert only when
\* notifications are enabled, the score is below 3, the issue list is not
\* empty, no alert raised earlier is still undismissed and more than 60 s have
\* passed since the previous alert, after any calls of updatePostureScore,
\* dismissPostureAlert, startTracking, stopTracking and updateSettings; so at
\* most one posture alert is undismissed at any time.
C21_AlertOnlyWhenNoneIsOpen ==
    [][Len(postureAlerts') > Len(postureAlerts)
          => /\ settings.enableNotifications
             /\ Last(postureAlerts').score < 3
             /\ Len(Last(postureAlerts').issues) > 0
             /\ undismissed = 0
             /\ undismissed' <= 1
             /\ postureAlerts # <<>>
                   => now - Last(postureAlerts).at > ALERT_COOLDOWN]_vars

\* C30: from a stopTracking call of the client to its next startTracking
\* call no interval timer is running and screenTime does not go up, whatever
\* calls of updateSettings, takeBreak, dismissBreakAlert and
\* updatePostureScore are made in between.
C30_NothingRunsWhilePaused ==
    [][/\ paused' => intervals' = {}
       /\ (paused /\ paused') => data'.screenTime <= data.screenTime]_vars

====
